---- MODULE Spec2Model ----
(***************************************************************************)
(* gwork: paginated retrieval of Drive files and permissions, the          *)
(* internal/external classification of a permission, the external-sharing  *)
(* and files-by-owner audits that drive them, the CSV reports, and the     *)
(* command line with its configuration check.                              *)
(*                                                                         *)
(* Go strings that the code inspects character by character (e-mail        *)
(* addresses, domains, timestamps, the reports' sort keys) are sequences   *)
(* of one-character strings; strings the code only compares or copies      *)
(* (IDs, types, roles, page tokens, messages) are TLA+ strings.  A Go      *)
(* slice is a sequence; nil and the empty slice are both <<>>.  A Go error *)
(* is a record; the nil error is NoErr.                                    *)
(***************************************************************************)
EXTENDS Integers, Sequences, FiniteSets, TLC

VARIABLES
    op,           \* the entry point this run exercises
    pc,           \* position of the single thread of control
    domain,       \* Client.domain
    ctxDone,      \* ctx.Done() is closed
    argPerm,      \* IsExternalShare: the perm argument
    retExternal,  \* IsExternalShare: <<>> until it returns, then <<bool>>
    argEmail,     \* ExtractDomain: the email argument
    retDomain,    \* ExtractDomain: <<>> until it returns, then <<string>>
    pageSize,             \* Client.pageSize
    includeSharedDrives,  \* Client.includeSharedDrives
    allFiles,      \* ListAllFiles: the accumulator
    filePageToken, \* ListAllFiles: pageToken
    fileCalls,     \* history: the options of every api.ListFiles call of this activation
    filePages,     \* history: the response to every api.ListFiles call of this activation
    lafRet,        \* ListAllFiles: what it returned, [val, err]
    permFileID,    \* GetFilePermissions: the fileID argument
    allPerms,      \* GetFilePermissions: the accumulator
    permPageToken, \* GetFilePermissions: pageToken
    permCalls,     \* history: file ID and options of every api.ListPermissions call of this activation
    permPages,     \* history: the response to every api.ListPermissions call of this activation
    gfpRet,        \* GetFilePermissions: what it returned, [val, err]
    files,         \* AuditExternalSharing: files
    pos,           \* AuditExternalSharing: 1-based position of the range loop
    result,        \* AuditExternalSharing: *result
    fetchIssued,   \* history: the loop positions for which GetFilePermissions was called
    fetchRets,     \* history: what each of those calls returned
    aesRet,        \* AuditExternalSharing: what it returned, [val, err]; val is <<>> for nil
    afRet,         \* AuditFiles: what it returned, [val, err]; val is <<>> for nil
    allRet,        \* AuditAll: what it returned, [files, sharing, err]
    listing,       \* reports: the files the remote's pages hold, in order
    records,       \* reports: the slice the writer is given (sorted in place)
    given,         \* history: that slice as the caller passed it
    rows,          \* reports: the rows of the CSV file of this run
    repRet,        \* reports: what the writer returned, <<>> until it returns
    runs,          \* history: the rows written by each finished run
    cfg,           \* command line: the Config that viper unmarshals
    valRet,        \* command line: <<>> until Validate returns, then <<its errs>>
    cmdErr,        \* command line: <<>> until the command returns, then <<its error>>
    exitCode,      \* command line: <<>> until the process exits, then <<its status>>
    command,       \* command line: the audit command given
    did,           \* history: authentication, listing and the reports written
    remote         \* the remote: how many files, permissions and non-empty
                   \* next page tokens it has returned in this run

clientVars == <<domain, pageSize, includeSharedDrives>>
pureVars == <<argPerm, retExternal, argEmail, retDomain>>
lafVars == <<allFiles, filePageToken, fileCalls, filePages, lafRet>>
gfpVars == <<permFileID, allPerms, permPageToken, permCalls, permPages, gfpRet>>
aesVars == <<files, pos, result, fetchIssued, fetchRets, aesRet>>

repVars == <<listing, records, given, rows, repRet, runs>>

cliVars == <<cfg, valRet, cmdErr, exitCode, command, did>>

vars == <<op, pc, ctxDone, clientVars, pureVars, lafVars, gfpVars, aesVars,
          afRet, allRet, repVars, cliVars, remote>>

-----------------------------------------------------------------------------
(* Bounds of the model.                                                    *)

\* longest e-mail address drawn as an input
MaxEmailLen == 4
\* longest organization / permission domain drawn as an input
MaxDomainLen == 2

\* characters of the e-mail addresses drawn as inputs
EmailChars == {"@", "d", "."}
\* characters of the domains drawn as inputs
DomainChars == {"d", "D"}

\* all sequences over S of length at most n
StringsUpTo(S, n) == UNION {[1..k -> S] : k \in 0..n}

Emails == StringsUpTo(EmailChars, MaxEmailLen)
Domains == StringsUpTo(DomainChars, MaxDomainLen)

\* the organization domains a client is configured with: Config.Validate
\* rejects an empty google.domain before the client is built
OrgDomains == Domains \ {<<>>}

\* permission types drawn as inputs: the four known ones, the empty type,
\* a differently-cased spelling and an unknown one
PermTypes == {"anyone", "domain", "user", "group", "", "User", "unknown"}

-----------------------------------------------------------------------------
(* drive.Permission and the classifier.                                    *)

\* the nil error
NoErr == [kind |-> "nil"]

\* ctx.Err() once ctx.Done() is closed
CtxErr == [kind |-> "canceled"]

\* an error returned by the transport (the remote API call itself)
TransportErr(code) == [kind |-> "transport", code |-> code]

\* fmt.Errorf("<msg>: %w", cause); msg is the tuple of the message's parts
Wrap(msg, cause) == [kind |-> "wrap", msg |-> msg, cause |-> cause]

\* the return registers before a function has returned
NoRet == [val |-> <<>>, err |-> NoErr]

\* those of AuditAll, which returns two results and an error
NoAllRet == [files |-> <<>>, sharing |-> <<>>, err |-> NoErr]

\* drive.Permission (internal/drive/interfaces.go)
Permission(id, type, role, email, dom, name) ==
    [ID |-> id, Type |-> type, Role |-> role, EmailAddress |-> email,
     Domain |-> dom, DisplayName |-> name]

\* strings.LastIndex(s, c) for a one-character c: the 0-based index of the
\* last occurrence of c in s, or -1
LastIndex(s, c) ==
    LET hits == {i \in 1..Len(s) : s[i] = c}
    IN  IF hits = {} THEN -1
        ELSE (CHOOSE i \in hits : \A j \in hits : j <= i) - 1

\* the Go slice expression s[k:] (k is 0-based)
SliceFrom(s, k) == SubSeq(s, k + 1, Len(s))

\* ExtractDomain cutting at the first "@" (strings.Index for strings.LastIndex)
ExtractDomain_FirstAt(email) ==
    LET hits == {i \in 1..Len(email) : email[i] = "@"}
    IN  IF hits = {} THEN <<>>
        ELSE SliceFrom(email, CHOOSE i \in hits : \A j \in hits : i <= j)

\* ExtractDomain extracts the domain part from an email address.
ExtractDomain(email) ==
    LET idx == LastIndex(email, "@")
    IN  IF idx < 0 THEN <<>> ELSE SliceFrom(email, idx + 1)

\* s ends with suffix (strings.HasSuffix)
HasSuffix(s, suffix) ==
    /\ Len(suffix) <= Len(s)
    /\ SubSeq(s, Len(s) - Len(suffix) + 1, Len(s)) = suffix

\* IsExternalShare with "anyone" decided by the permission's domain
IsExternalShare_AnyoneByDomain(dom, perm) ==
    CASE perm.Type \in {"anyone", "domain"} -> perm.Domain # dom
      [] perm.Type \in {"user", "group"} ->
            IF perm.EmailAddress = <<>> THEN FALSE
            ELSE ExtractDomain(perm.EmailAddress) # dom
      [] OTHER -> FALSE

\* IsExternalShare taking a domain permission without a domain for internal
IsExternalShare_EmptyDomainInternal(dom, perm) ==
    CASE perm.Type = "anyone" -> TRUE
      [] perm.Type = "domain" -> perm.Domain # <<>> /\ perm.Domain # dom
      [] perm.Type \in {"user", "group"} ->
            IF perm.EmailAddress = <<>> THEN FALSE
            ELSE ExtractDomain(perm.EmailAddress) # dom
      [] OTHER -> FALSE

\* IsExternalShare matching the e-mail's domain as a suffix (strings.HasSuffix)
IsExternalShare_SuffixMatch(dom, perm) ==
    CASE perm.Type = "anyone" -> TRUE
      [] perm.Type = "domain" -> perm.Domain # dom
      [] perm.Type \in {"user", "group"} ->
            IF perm.EmailAddress = <<>> THEN FALSE
            ELSE ~HasSuffix(ExtractDomain(perm.EmailAddress), dom)
      [] OTHER -> FALSE

\* IsExternalShare failing open: an unknown type is external
IsExternalShare_FailOpen(dom, perm) ==
    CASE perm.Type = "anyone" -> TRUE
      [] perm.Type = "domain" -> perm.Domain # dom
      [] perm.Type \in {"user", "group"} ->
            IF perm.EmailAddress = <<>> THEN FALSE
            ELSE ExtractDomain(perm.EmailAddress) # dom
      [] OTHER -> TRUE

\* Client.IsExternalShare, the receiver's domain passed as dom
IsExternalShare(dom, perm) ==
    CASE perm.Type = "anyone" -> TRUE
      [] perm.Type = "domain" -> perm.Domain # dom
      [] perm.Type \in {"user", "group"} ->
            IF perm.EmailAddress = <<>> THEN FALSE
            ELSE ExtractDomain(perm.EmailAddress) # dom
      [] OTHER -> FALSE

-----------------------------------------------------------------------------
(* Values of the idle parts of the state.                                  *)

\* the remote before its first answer
FreshRemote == [files |-> 0, perms |-> 0, tokens |-> 0]

NoPerm == Permission("", "", "", <<>>, <<>>, "")

\* the decimal digits
Digits == <<"0", "1", "2", "3", "4", "5", "6", "7", "8", "9">>

IsDigit(c) == \E i \in 1..Len(Digits) : Digits[i] = c

DigitVal(c) == (CHOOSE i \in 1..Len(Digits) : Digits[i] = c) - 1

AllDigits(s) == \A i \in 1..Len(s) : IsDigit(s[i])

\* the number a run of digits writes
RECURSIVE Atoi(_)
Atoi(s) ==
    IF s = <<>> THEN 0
    ELSE 10 * Atoi(SubSeq(s, 1, Len(s) - 1)) + DigitVal(s[Len(s)])

\* n in decimal, zero-padded to w digits
RECURSIVE Pad(_, _)
Pad(n, w) ==
    IF w = 0 THEN <<>>
    ELSE Append(Pad(n \div 10, w - 1), Digits[(n % 10) + 1])

IsLeap(year) == (year % 4 = 0 /\ year % 100 # 0) \/ year % 400 = 0

DaysIn(year, month) ==
    IF month = 2 THEN (IF IsLeap(year) THEN 29 ELSE 28)
    ELSE IF month \in {4, 6, 9, 11} THEN 30 ELSE 31

\* a time.Time: the wall clock it shows in its own location, and that
\* location's offset from UTC in minutes (east positive); whole seconds
Time(year, month, day, hour, minute, second, offset) ==
    [Year |-> year, Month |-> month, Day |-> day, Hour |-> hour,
     Minute |-> minute, Second |-> second, Offset |-> offset]

\* time.Time{}: January 1, year 1, 00:00:00 UTC
ZeroTime == Time(1, 1, 1, 0, 0, 0, 0)

\* days from January 1 of year 1 to the date
RECURSIVE DaysBeforeMonth(_, _)
DaysBeforeMonth(year, month) ==
    IF month = 1 THEN 0
    ELSE DaysBeforeMonth(year, month - 1) + DaysIn(year, month - 1)

DaysSinceZero(year, month, day) ==
    LET y == year - 1
    IN  365 * y + (y \div 4) - (y \div 100) + (y \div 400)
        + DaysBeforeMonth(year, month) + (day - 1)

\* the instant of t: whole minutes since January 1, year 1, 00:00 UTC, and
\* the seconds into the minute
Instant(t) ==
    <<(DaysSinceZero(t.Year, t.Month, t.Day) * 24 + t.Hour) * 60
          + t.Minute - t.Offset,
      t.Second>>

\* Time.IsZero: the instant is that of time.Time{}, whatever the location
IsZero(t) == Instant(t) = <<0, 0>>

\* the characters of value after an optional fractional second: a period
\* or comma followed by digits
RECURSIVE SkipDigits(_)
SkipDigits(value) ==
    IF value # <<>> /\ IsDigit(Head(value)) THEN SkipDigits(Tail(value))
    ELSE value

SkipFraction(value) ==
    IF Len(value) >= 2 /\ value[1] \in {".", ","} /\ IsDigit(value[2])
    THEN SkipDigits(Tail(value))
    ELSE value

\* the zone of an RFC 3339 string: [ok, offset in minutes]
ParseZone(value) ==
    IF value = <<"Z">> THEN [ok |-> TRUE, offset |-> 0]
    ELSE IF /\ Len(value) = 6
            /\ value[1] \in {"+", "-"}
            /\ AllDigits(SubSeq(value, 2, 3))
            /\ value[4] = ":"
            /\ AllDigits(SubSeq(value, 5, 6))
    THEN LET m == Atoi(SubSeq(value, 2, 3)) * 60 + Atoi(SubSeq(value, 5, 6))
         IN  [ok |-> TRUE, offset |-> IF value[1] = "-" THEN 0 - m ELSE m]
    ELSE [ok |-> FALSE, offset |-> 0]

\* time.Parse(time.RFC3339, value): [t, err]; t is time.Time{} when the
\* string does not parse
Parse(value) ==
    LET num(a, b) == Atoi(SubSeq(value, a, b))
        shaped ==
            /\ Len(value) >= 20
            /\ AllDigits(SubSeq(value, 1, 4))
            /\ value[5] = "-"
            /\ AllDigits(SubSeq(value, 6, 7))
            /\ value[8] = "-"
            /\ AllDigits(SubSeq(value, 9, 10))
            /\ value[11] = "T"
            /\ AllDigits(SubSeq(value, 12, 13))
            /\ value[14] = ":"
            /\ AllDigits(SubSeq(value, 15, 16))
            /\ value[17] = ":"
            /\ AllDigits(SubSeq(value, 18, 19))
        zone == ParseZone(SkipFraction(SubSeq(value, 20, Len(value))))
        inRange ==
            /\ num(6, 7) \in 1..12
            /\ num(9, 10) \in 1..DaysIn(num(1, 4), num(6, 7))
            /\ num(12, 13) < 24
            /\ num(15, 16) < 60
            /\ num(18, 19) < 60
    IN  IF shaped /\ zone.ok /\ inRange
        THEN [t |-> Time(num(1, 4), num(6, 7), num(9, 10), num(12, 13),
                         num(15, 16), num(18, 19), zone.offset),
              err |-> FALSE]
        ELSE [t |-> ZeroTime, err |-> TRUE]

\* a timestamp string as the remote writes it: date, time and zone
Stamp(year, month, day, hour, minute, second, zone) ==
    Pad(year, 4) \o <<"-">> \o Pad(month, 2) \o <<"-">> \o Pad(day, 2)
    \o <<"T">> \o Pad(hour, 2) \o <<":">> \o Pad(minute, 2) \o <<":">>
    \o Pad(second, 2) \o zone

\* AuditResult (internal/audit/types.go), at its zero value
ZeroResult ==
    [TotalFiles |-> 0, TotalExternalShares |-> 0, FilesProcessed |-> 0,
     Errors |-> <<>>, FileRecords |-> <<>>, ExternalShares |-> <<>>]

IdlePure ==
    /\ argPerm = NoPerm
    /\ retExternal = <<>>
    /\ argEmail = <<>>
    /\ retDomain = <<>>

IdleListing ==
    /\ allFiles = <<>>
    /\ filePageToken = ""
    /\ fileCalls = <<>>
    /\ filePages = <<>>
    /\ lafRet = NoRet
    /\ permFileID = ""
    /\ allPerms = <<>>
    /\ permPageToken = ""
    /\ permCalls = <<>>
    /\ permPages = <<>>
    /\ gfpRet = NoRet

IdleReport ==
    /\ listing = <<>>
    /\ records = <<>>
    /\ given = <<>>
    /\ rows = <<>>
    /\ repRet = <<>>
    /\ runs = <<>>

\* NewDefault (internal/config): the configuration without a config file
DefaultPageSize == 1000

NewDefault ==
    [ServiceAccountFile |-> "", AdminEmail |-> <<>>, Domain |-> <<>>,
     PageSize |-> DefaultPageSize, Format |-> "csv"]

IdleCli ==
    /\ cfg = NewDefault
    /\ valRet = <<>>
    /\ cmdErr = <<>>
    /\ exitCode = <<>>
    /\ command = ""
    /\ did = <<>>

IdleAudit ==
    /\ files = <<>>
    /\ pos = 0
    /\ result = ZeroResult
    /\ fetchIssued = <<>>
    /\ fetchRets = <<>>
    /\ aesRet = NoRet
    /\ afRet = NoRet
    /\ allRet = NoAllRet
    /\ remote = FreshRemote

-----------------------------------------------------------------------------
(* The remote API: what api.ListFiles and api.ListPermissions may answer.  *)

\* most non-empty next page tokens the remote returns over one run
MaxTokens == 2
\* most files the remote returns over one run
MaxFiles == 2
\* most permissions the remote returns over one run
MaxPerms == 2

\* the non-empty next page tokens, in the order the remote returns them: a
\* token is an opaque cursor, and the remote returns each one once
Tokens == <<"t1", "t2", "t3", "t4", "t5", "t6">>

\* causes of a failed remote call
RemoteErrors == {"e403"}

\* the zones the remote's timestamps carry: UTC and two numeric offsets
ZoneZ == <<"Z">>
ZoneEast == <<"+", "0", "5", ":", "0", "0">>
ZoneWest == <<"-", "0", "8", ":", "0", "0">>

\* timestamp strings that are RFC 3339
ValidStamps ==
    { Stamp(2024, 1, 15, 10, 30, 0, ZoneZ),
      Stamp(2024, 1, 20, 15, 45, 0, ZoneWest),
      Stamp(2024, 2, 29, 23, 59, 59, ZoneEast),
      Stamp(2024, 1, 1, 2, 0, 0, ZoneEast) }

\* timestamp strings that are not: the empty string, text, a month 13, a
\* February 30, a missing zone, a space for the "T"
InvalidStamps ==
    { <<>>,
      <<"b", "a", "d">>,
      Stamp(2024, 13, 1, 0, 0, 0, ZoneZ),
      Stamp(2023, 2, 30, 0, 0, 0, ZoneZ),
      Stamp(2024, 1, 15, 10, 30, 0, <<>>),
      [Stamp(2024, 1, 15, 10, 30, 0, ZoneZ) EXCEPT ![11] = " "] }

\* drive.File entries the remote holds (google.golang.org/api/drive/v3),
\* Owners being the owners' e-mail addresses
RemoteFiles ==
    { [Id |-> "f1", Name |-> "a", MimeType |-> "text/plain",
       Owners |-> <<"o1", "o2">>,
       CreatedTime |-> Stamp(2024, 1, 15, 10, 30, 0, ZoneZ),
       ModifiedTime |-> Stamp(2024, 1, 20, 15, 45, 0, ZoneWest),
       Size |-> 10],
      [Id |-> "f2", Name |-> "b", MimeType |-> "application/pdf",
       Owners |-> <<>>, CreatedTime |-> <<>>,
       ModifiedTime |-> <<"b", "a", "d">>, Size |-> 0] }

\* drive.Permission entries the remote holds: a public link, a user of
\* another domain, a user of the domain "d"
RemotePerms ==
    { [Id |-> "p1", Type |-> "anyone", Role |-> "reader",
       EmailAddress |-> <<>>, Domain |-> <<>>, DisplayName |-> ""],
      [Id |-> "p2", Type |-> "user", Role |-> "writer",
       EmailAddress |-> <<"d", "@", ".", "d">>, Domain |-> <<>>,
       DisplayName |-> "x"],
      [Id |-> "p3", Type |-> "user", Role |-> "owner",
       EmailAddress |-> <<"d", "@", "d">>, Domain |-> <<>>,
       DisplayName |-> "y"] }

\* what the remote may answer to a call: a failure, or a page of at most
\* maxItems entries of pool with a next page token, empty or (while the
\* remote has returned fewer than MaxTokens of those) the next cursor
Responses(pool, maxItems) ==
    {[kind |-> "error", cause |-> TransportErr(e)] : e \in RemoteErrors}
    \cup
    {[kind |-> "page", items |-> its, token |-> t] :
        its \in StringsUpTo(pool, maxItems),
        t \in (IF remote.tokens < MaxTokens
               THEN {Tokens[remote.tokens + 1]} ELSE {}) \cup {""}}

\* the remote after the answer r to a listing of `what`
Served(what, r) ==
    IF r.kind = "error" THEN remote
    ELSE [remote EXCEPT ![what] = @ + Len(r.items),
                        !.tokens = @ + (IF r.token = "" THEN 0 ELSE 1)]

-----------------------------------------------------------------------------
(* Client.ListAllFiles (internal/drive/files.go).                          *)

\* ListFilesOptions without the page token
ListFilesOptions_TokenDropped(token) ==
    [Corpora |-> "domain",
     PageSize |-> pageSize,
     PageToken |-> "",
     Fields |-> "nextPageToken, files(id, name, mimeType, owners, createdTime, modifiedTime, size)",
     SupportsAllDrives |-> includeSharedDrives,
     IncludeItemsFromAllDrives |-> includeSharedDrives]

\* drive.ListFilesOptions as ListAllFiles builds it
ListFilesOptions(token) ==
    [Corpora |-> "domain",
     PageSize |-> pageSize,
     PageToken |-> token,
     Fields |-> "nextPageToken, files(id, name, mimeType, owners, createdTime, modifiedTime, size)",
     SupportsAllDrives |-> includeSharedDrives,
     IncludeItemsFromAllDrives |-> includeSharedDrives]

\* the FileInfo ListAllFiles makes of a drive.File
FileInfo(file) ==
    [ID |-> file.Id,
     Name |-> file.Name,
     MimeType |-> file.MimeType,
     OwnerEmail |-> IF Len(file.Owners) > 0 THEN file.Owners[1] ELSE "",
     CreatedTime |-> file.CreatedTime,
     ModifiedTime |-> file.ModifiedTime,
     Size |-> file.Size]

\* the FileInfo of each entry of a page, in the page's order
FileInfos(items) == [i \in 1..Len(items) |-> FileInfo(items[i])]

\* AppendFiles putting each page in front of the earlier ones
AppendFiles_Prepend(acc, items) == FileInfos(items) \o acc

\* the loop `for _, file := range result.Files { allFiles = append(...) }`
AppendFiles(acc, items) == acc \o FileInfos(items)

\* no activation of ListAllFiles: its locals and its history are gone
ListAllFilesGone ==
    /\ allFiles' = <<>>
    /\ filePageToken' = ""
    /\ fileCalls' = <<>>
    /\ filePages' = <<>>
    /\ lafRet' = NoRet

\* the call `ListAllFiles(ctx)`: a fresh activation
ListAllFilesBegin ==
    /\ ListAllFilesGone
    /\ pc' = "laf_check"

\* ListAllFilesCheck returning nil, as on a failed call, when cancelled
ListAllFilesCheck_DropPartial ==
    /\ pc = "laf_check"
    /\ IF ctxDone
       THEN /\ lafRet' = [val |-> <<>>, err |-> CtxErr]
            /\ pc' = "laf_ret"
            /\ UNCHANGED fileCalls
       ELSE /\ fileCalls' = Append(fileCalls, ListFilesOptions(filePageToken))
            /\ pc' = "laf_call"
            /\ UNCHANGED lafRet
    /\ UNCHANGED <<op, allRet, cliVars, afRet, repVars, ctxDone, clientVars, pureVars, allFiles, filePageToken,
                   filePages, gfpVars, aesVars, remote>>

\* ListAllFilesCheck with a select that has no default case: the loop waits
\* for ctx.Done()
ListAllFilesCheck_NoDefault ==
    /\ pc = "laf_check"
    /\ ctxDone
    /\ lafRet' = [val |-> allFiles, err |-> CtxErr]
    /\ pc' = "laf_ret"
    /\ UNCHANGED fileCalls
    /\ UNCHANGED <<op, allRet, cliVars, afRet, repVars, ctxDone, clientVars, pureVars, allFiles, filePageToken,
                   filePages, gfpVars, aesVars, remote>>

\* top of the loop: the select on ctx.Done(), then the request is sent
ListAllFilesCheck ==
    /\ pc = "laf_check"
    /\ IF ctxDone
       THEN /\ lafRet' = [val |-> allFiles, err |-> CtxErr]
            /\ pc' = "laf_ret"
            /\ UNCHANGED fileCalls
       ELSE /\ fileCalls' = Append(fileCalls, ListFilesOptions(filePageToken))
            /\ pc' = "laf_call"
            /\ UNCHANGED lafRet
    /\ UNCHANGED <<op, allRet, cliVars, afRet, repVars, ctxDone, clientVars, pureVars, allFiles, filePageToken,
                   filePages, gfpVars, aesVars, remote>>

\* api.ListFiles answers; the rest of the loop body
ListAllFilesPage ==
    /\ pc = "laf_call"
    /\ \E r \in Responses(RemoteFiles, MaxFiles - remote.files) :
          /\ filePages' = Append(filePages, r)
          /\ remote' = Served("files", r)
          /\ IF r.kind = "error"
             THEN /\ lafRet' = [val |-> <<>>,
                                err |-> Wrap(<<"failed to list files">>, r.cause)]
                  /\ pc' = "laf_ret"
                  /\ UNCHANGED <<allFiles, filePageToken>>
             ELSE /\ allFiles' = AppendFiles(allFiles, r.items)
                  /\ filePageToken' = r.token
                  /\ IF r.token = ""
                     THEN /\ lafRet' = [val |-> allFiles', err |-> NoErr]
                          /\ pc' = "laf_ret"
                     ELSE /\ pc' = "laf_check"
                          /\ UNCHANGED lafRet
    /\ UNCHANGED <<op, allRet, cliVars, afRet, repVars, ctxDone, clientVars, pureVars, fileCalls, gfpVars, aesVars>>

-----------------------------------------------------------------------------
(* Client.GetFilePermissions (internal/drive).                              *)

\* drive.ListPermissionsOptions as GetFilePermissions builds it
ListPermissionsOptions(token) ==
    [Fields |-> "nextPageToken, permissions(id, type, role, emailAddress, domain, displayName)",
     PageToken |-> token,
     SupportsAllDrives |-> includeSharedDrives]

\* the Permission GetFilePermissions makes of a drive.Permission
PermissionOf(perm) ==
    Permission(perm.Id, perm.Type, perm.Role, perm.EmailAddress, perm.Domain,
               perm.DisplayName)

\* the Permission of each entry of a page, in the page's order
Permissions(items) == [i \in 1..Len(items) |-> PermissionOf(items[i])]

\* the loop `for _, perm := range result.Permissions { allPerms = append(...) }`
AppendPerms(acc, items) == acc \o Permissions(items)

\* the locals and the history of a fresh activation of GetFilePermissions
GetFilePermissionsFrame(fileID) ==
    /\ permFileID' = fileID
    /\ allPerms' = <<>>
    /\ permPageToken' = ""
    /\ permCalls' = <<>>
    /\ permPages' = <<>>
    /\ gfpRet' = NoRet

\* the call `GetFilePermissions(ctx, fileID)`: a fresh activation
GetFilePermissionsBegin(fileID) ==
    /\ GetFilePermissionsFrame(fileID)
    /\ pc' = "gfp_check"

\* top of the loop: the select on ctx.Done(), then the request is sent
GetFilePermissionsCheck ==
    /\ pc = "gfp_check"
    /\ IF ctxDone
       THEN /\ gfpRet' = [val |-> allPerms, err |-> CtxErr]
            /\ pc' = "gfp_ret"
            /\ UNCHANGED permCalls
       ELSE /\ permCalls' = Append(permCalls,
                                   [fileID |-> permFileID,
                                    opts |-> ListPermissionsOptions(permPageToken)])
            /\ pc' = "gfp_call"
            /\ UNCHANGED gfpRet
    /\ UNCHANGED <<op, allRet, cliVars, afRet, repVars, ctxDone, clientVars, pureVars, lafVars, permFileID,
                   allPerms, permPageToken, permPages, aesVars, remote>>

\* GetFilePermissionsPage returning what it has, as on cancellation, when
\* the call fails
GetFilePermissionsPage_PartialOnError ==
    /\ pc = "gfp_call"
    /\ \E r \in Responses(RemotePerms, MaxPerms - remote.perms) :
          /\ permPages' = Append(permPages, r)
          /\ remote' = Served("perms", r)
          /\ IF r.kind = "error"
             THEN /\ gfpRet' = [val |-> allPerms,
                                err |-> Wrap(<<"failed to list permissions for file",
                                               permFileID>>, r.cause)]
                  /\ pc' = "gfp_ret"
                  /\ UNCHANGED <<allPerms, permPageToken>>
             ELSE /\ allPerms' = AppendPerms(allPerms, r.items)
                  /\ permPageToken' = r.token
                  /\ IF r.token = ""
                     THEN /\ gfpRet' = [val |-> allPerms', err |-> NoErr]
                          /\ pc' = "gfp_ret"
                     ELSE /\ pc' = "gfp_check"
                          /\ UNCHANGED gfpRet
    /\ UNCHANGED <<op, allRet, cliVars, afRet, repVars, ctxDone, clientVars, pureVars, lafVars, permFileID,
                   permCalls, aesVars>>

\* api.ListPermissions answers; the rest of the loop body
GetFilePermissionsPage ==
    /\ pc = "gfp_call"
    /\ \E r \in Responses(RemotePerms, MaxPerms - remote.perms) :
          /\ permPages' = Append(permPages, r)
          /\ remote' = Served("perms", r)
          /\ IF r.kind = "error"
             THEN /\ gfpRet' = [val |-> <<>>,
                                err |-> Wrap(<<"failed to list permissions for file",
                                               permFileID>>, r.cause)]
                  /\ pc' = "gfp_ret"
                  /\ UNCHANGED <<allPerms, permPageToken>>
             ELSE /\ allPerms' = AppendPerms(allPerms, r.items)
                  /\ permPageToken' = r.token
                  /\ IF r.token = ""
                     THEN /\ gfpRet' = [val |-> allPerms', err |-> NoErr]
                          /\ pc' = "gfp_ret"
                     ELSE /\ pc' = "gfp_check"
                          /\ UNCHANGED gfpRet
    /\ UNCHANGED <<op, allRet, cliVars, afRet, repVars, ctxDone, clientVars, pureVars, lafVars, permFileID,
                   permCalls, aesVars>>

-----------------------------------------------------------------------------
(* Auditor.AuditExternalSharing (internal/audit/sharing.go), run with the  *)
(* production drive client.                                                *)

\* permissionToRecord taking the permission's ID for the file's
permissionToRecord_PermissionID(file, perm) ==
    LET sharedWithDomain ==
            IF perm.Domain = <<>> /\ perm.EmailAddress # <<>>
            THEN ExtractDomain(perm.EmailAddress)
            ELSE perm.Domain
    IN  [OwnerEmail |-> file.OwnerEmail,
         FileID |-> perm.ID,
         FileName |-> file.Name,
         SharedWithEmail |-> perm.EmailAddress,
         SharedWithDomain |-> sharedWithDomain,
         PermissionType |-> perm.Type,
         PermissionRole |-> perm.Role,
         SharedDate |-> ZeroTime]

\* permissionToRecord dating the share at the moment of the audit
permissionToRecord_DatedNow(file, perm) ==
    LET sharedWithDomain ==
            IF perm.Domain = <<>> /\ perm.EmailAddress # <<>>
            THEN ExtractDomain(perm.EmailAddress)
            ELSE perm.Domain
    IN  [OwnerEmail |-> file.OwnerEmail,
         FileID |-> file.ID,
         FileName |-> file.Name,
         SharedWithEmail |-> perm.EmailAddress,
         SharedWithDomain |-> sharedWithDomain,
         PermissionType |-> perm.Type,
         PermissionRole |-> perm.Role,
         SharedDate |-> Time(2026, 1, 1, 0, 0, 0, 0)]

\* permissionToRecord taking the domain of the email address first, the
\* permission's domain only for want of an email address
permissionToRecord_EmailFirst(file, perm) ==
    LET sharedWithDomain ==
            IF perm.EmailAddress # <<>>
            THEN ExtractDomain(perm.EmailAddress)
            ELSE perm.Domain
    IN  [OwnerEmail |-> file.OwnerEmail,
         FileID |-> file.ID,
         FileName |-> file.Name,
         SharedWithEmail |-> perm.EmailAddress,
         SharedWithDomain |-> sharedWithDomain,
         PermissionType |-> perm.Type,
         PermissionRole |-> perm.Role,
         SharedDate |-> ZeroTime]

\* permissionToRecord converts a file and permission to an ExternalShareRecord.
permissionToRecord(file, perm) ==
    LET sharedWithDomain ==
            IF perm.Domain = <<>> /\ perm.EmailAddress # <<>>
            THEN ExtractDomain(perm.EmailAddress)
            ELSE perm.Domain
    IN  [OwnerEmail |-> file.OwnerEmail,
         FileID |-> file.ID,
         FileName |-> file.Name,
         SharedWithEmail |-> perm.EmailAddress,
         SharedWithDomain |-> sharedWithDomain,
         PermissionType |-> perm.Type,
         PermissionRole |-> perm.Role,
         SharedDate |-> ZeroTime]

\* the loop `for _, perm := range perms { if IsExternalShare(perm) { append } }`
RECURSIVE AppendShares(_, _, _)
AppendShares(acc, file, perms) ==
    IF perms = <<>> THEN acc
    ELSE AppendShares(
            IF IsExternalShare(domain, Head(perms))
            THEN Append(acc, permissionToRecord(file, Head(perms)))
            ELSE acc,
            file, Tail(perms))

\* the caller has its result: nothing runs any more
Terminated ==
    \/ pc = "done"
    \/ op = "ListAllFiles" /\ pc = "laf_ret"
    \/ op = "GetFilePermissions" /\ pc = "gfp_ret"

\* the context is cancelled by its owner, at any moment of the run
Cancel ==
    /\ ~ctxDone
    /\ ~Terminated
    /\ ctxDone' = TRUE
    /\ UNCHANGED <<op, allRet, cliVars, afRet, repVars, pc, clientVars, pureVars, lafVars, gfpVars, aesVars,
                   remote>>

\* a caller calls ListAllFiles(ctx)
ListAllFilesStart ==
    /\ op = "ListAllFiles"
    /\ pc = "start"
    /\ ListAllFilesBegin
    /\ UNCHANGED <<op, allRet, cliVars, afRet, repVars, ctxDone, clientVars, pureVars, gfpVars, aesVars, remote>>

\* a caller calls GetFilePermissions(ctx, fileID)
GetFilePermissionsStart ==
    /\ op = "GetFilePermissions"
    /\ pc = "start"
    /\ \E f \in RemoteFiles : GetFilePermissionsBegin(f.Id)
    /\ UNCHANGED <<op, allRet, cliVars, afRet, repVars, ctxDone, clientVars, pureVars, lafVars, aesVars, remote>>

\* AuditExternalSharing is entered and calls ListAllFiles
AuditExternalSharingStart ==
    /\ op = "AuditExternalSharing"
    /\ pc = "start"
    /\ ListAllFilesBegin
    /\ UNCHANGED <<op, allRet, cliVars, afRet, repVars, ctxDone, clientVars, pureVars, gfpVars, aesVars, remote>>

\* ListAllFiles has returned to AuditExternalSharing: the error check and
\* the construction of result
AuditExternalSharingListed ==
    /\ op = "AuditExternalSharing"
    /\ pc = "laf_ret"
    /\ IF lafRet.err # NoErr
       THEN /\ aesRet' = [val |-> <<>>,
                          err |-> Wrap(<<"failed to list files">>, lafRet.err)]
            /\ pc' = "done"
            /\ UNCHANGED <<files, pos, result>>
       ELSE /\ files' = lafRet.val
            /\ result' = [ZeroResult EXCEPT !.TotalFiles = Len(lafRet.val)]
            /\ pos' = 1
            /\ pc' = "aes_loop"
            /\ UNCHANGED aesRet
    /\ ListAllFilesGone
    /\ UNCHANGED <<op, allRet, cliVars, afRet, repVars, ctxDone, clientVars, pureVars, gfpVars, fetchIssued,
                   fetchRets, remote>>

\* AuditExternalSharingLoop returning nil, as on a failed listing, when
\* cancelled
AuditExternalSharingLoop_NilOnCancel ==
    /\ op = "AuditExternalSharing"
    /\ pc = "aes_loop"
    /\ IF pos > Len(files)
       THEN /\ result' = [result EXCEPT
                            !.TotalExternalShares = Len(result.ExternalShares)]
            /\ aesRet' = [val |-> <<result'>>, err |-> NoErr]
            /\ pc' = "done"
            /\ UNCHANGED <<gfpVars, fetchIssued>>
       ELSE IF ctxDone
       THEN /\ aesRet' = [val |-> <<>>, err |-> CtxErr]
            /\ pc' = "done"
            /\ UNCHANGED <<gfpVars, fetchIssued, result>>
       ELSE /\ fetchIssued' = Append(fetchIssued, pos)
            /\ GetFilePermissionsBegin(files[pos].ID)
            /\ UNCHANGED <<aesRet, result>>
    /\ UNCHANGED <<op, allRet, cliVars, afRet, repVars, ctxDone, clientVars, pureVars, lafVars, files, pos,
                   fetchRets, remote>>

\* top of the range loop: the loop's end, the select on ctx.Done(), or the
\* call of GetFilePermissions for the next file
AuditExternalSharingLoop ==
    /\ op = "AuditExternalSharing"
    /\ pc = "aes_loop"
    /\ IF pos > Len(files)
       THEN /\ result' = [result EXCEPT
                            !.TotalExternalShares = Len(result.ExternalShares)]
            /\ aesRet' = [val |-> <<result'>>, err |-> NoErr]
            /\ pc' = "done"
            /\ UNCHANGED <<gfpVars, fetchIssued>>
       ELSE IF ctxDone
       THEN /\ aesRet' = [val |-> <<result>>, err |-> CtxErr]
            /\ pc' = "done"
            /\ UNCHANGED <<gfpVars, fetchIssued, result>>
       ELSE /\ fetchIssued' = Append(fetchIssued, pos)
            /\ GetFilePermissionsBegin(files[pos].ID)
            /\ UNCHANGED <<aesRet, result>>
    /\ UNCHANGED <<op, allRet, cliVars, afRet, repVars, ctxDone, clientVars, pureVars, lafVars, files, pos,
                   fetchRets, remote>>

\* FileOutcome putting a file's share records before those of the files
\* audited earlier
FileOutcome_SharesFirst(res, file, ret) ==
    IF ret.err # NoErr
    THEN [res EXCEPT !.Errors = Append(@, Wrap(<<"file", file.ID>>, ret.err))]
    ELSE [res EXCEPT !.FilesProcessed = @ + 1,
                     !.ExternalShares = AppendShares(<<>>, file, ret.val) \o @]

\* FileOutcome counting a file whose fetch failed as processed too
FileOutcome_FailedCounted(res, file, ret) ==
    IF ret.err # NoErr
    THEN [res EXCEPT !.FilesProcessed = @ + 1,
                     !.Errors = Append(@, Wrap(<<"file", file.ID>>, ret.err))]
    ELSE [res EXCEPT !.FilesProcessed = @ + 1,
                     !.ExternalShares = AppendShares(@, file, ret.val)]

\* result after GetFilePermissions returned ret for file
FileOutcome(res, file, ret) ==
    IF ret.err # NoErr
    THEN [res EXCEPT !.Errors = Append(@, Wrap(<<"file", file.ID>>, ret.err))]
    ELSE [res EXCEPT !.FilesProcessed = @ + 1,
                     !.ExternalShares = AppendShares(@, file, ret.val)]

\* AuditExternalSharingFetched returning the error of a failed fetch
\* instead of continuing with the next file
AuditExternalSharingFetched_StopOnError ==
    /\ op = "AuditExternalSharing"
    /\ pc = "gfp_ret"
    /\ fetchRets' = Append(fetchRets, gfpRet)
    /\ result' = FileOutcome(result, files[pos], gfpRet)
    /\ pos' = pos + 1
    /\ IF gfpRet.err # NoErr
       THEN /\ aesRet' = [val |-> <<result'>>, err |-> gfpRet.err]
            /\ pc' = "done"
       ELSE /\ pc' = "aes_loop"
            /\ UNCHANGED aesRet
    /\ GetFilePermissionsFrame("")
    /\ UNCHANGED <<op, allRet, cliVars, afRet, repVars, ctxDone, clientVars, pureVars, lafVars, files,
                   fetchIssued, remote>>

\* GetFilePermissions has returned to AuditExternalSharing: the rest of the
\* loop body
AuditExternalSharingFetched ==
    /\ op = "AuditExternalSharing"
    /\ pc = "gfp_ret"
    /\ fetchRets' = Append(fetchRets, gfpRet)
    /\ result' = FileOutcome(result, files[pos], gfpRet)
    /\ pos' = pos + 1
    /\ pc' = "aes_loop"
    /\ GetFilePermissionsFrame("")
    /\ UNCHANGED <<op, allRet, cliVars, afRet, repVars, ctxDone, clientVars, pureVars, lafVars, files,
                   fetchIssued, aesRet, remote>>

-----------------------------------------------------------------------------
(* Auditor.AuditFiles and fileInfoToRecord (internal/audit).  AuditFiles   *)
(* has the locals files and result of its own; the model keeps them in the *)
(* variables of those names.                                               *)

\* fileInfoToRecord converts a FileInfo to a FileRecord; the errors of
\* time.Parse are dropped
fileInfoToRecord(f) ==
    [OwnerEmail |-> f.OwnerEmail,
     FileID |-> f.ID,
     FileName |-> f.Name,
     FileType |-> f.MimeType,
     CreatedTime |-> Parse(f.CreatedTime).t,
     ModifiedTime |-> Parse(f.ModifiedTime).t,
     SizeBytes |-> f.Size]

\* FileRecordsOf leaving out the files with a timestamp that does not parse
FileRecordsOf_SkipUnparsed(fs) ==
    LET ok == SelectSeq(fs, LAMBDA f : /\ ~Parse(f.CreatedTime).err
                                       /\ ~Parse(f.ModifiedTime).err)
    IN  [i \in 1..Len(ok) |-> fileInfoToRecord(ok[i])]

\* the loop `for _, f := range files { append(fileInfoToRecord(f)) }`
FileRecordsOf(fs) == [i \in 1..Len(fs) |-> fileInfoToRecord(fs[i])]

\* AuditFiles is entered and calls ListAllFiles
AuditFilesStart ==
    /\ op = "AuditFiles"
    /\ pc = "start"
    /\ ListAllFilesBegin
    /\ UNCHANGED <<op, allRet, cliVars, afRet, repVars, ctxDone, clientVars, pureVars, gfpVars, aesVars,
                   remote>>

\* AuditFilesListed taking a failed listing for an empty one
AuditFilesListed_ErrorDropped ==
    /\ op = "AuditFiles"
    /\ pc = "laf_ret"
    /\ files' = lafRet.val
    /\ result' = [ZeroResult EXCEPT
                     !.TotalFiles = Len(lafRet.val),
                     !.FileRecords = FileRecordsOf(lafRet.val),
                     !.FilesProcessed = Len(lafRet.val)]
    /\ afRet' = [val |-> <<result'>>, err |-> NoErr]
    /\ pc' = "done"
    /\ ListAllFilesGone
    /\ UNCHANGED <<op, allRet, cliVars, repVars, ctxDone, clientVars, pureVars, gfpVars, pos,
                   fetchIssued, fetchRets, aesRet, remote>>

\* ListAllFiles has returned to AuditFiles: the error check, the
\* construction of result, the conversion loop and the return
AuditFilesListed ==
    /\ op = "AuditFiles"
    /\ pc = "laf_ret"
    /\ IF lafRet.err # NoErr
       THEN /\ afRet' = [val |-> <<>>,
                         err |-> Wrap(<<"failed to list files">>, lafRet.err)]
            /\ UNCHANGED <<files, result>>
       ELSE /\ files' = lafRet.val
            /\ result' = [ZeroResult EXCEPT
                             !.TotalFiles = Len(lafRet.val),
                             !.FileRecords = FileRecordsOf(lafRet.val),
                             !.FilesProcessed = Len(lafRet.val)]
            /\ afRet' = [val |-> <<result'>>, err |-> NoErr]
    /\ pc' = "done"
    /\ ListAllFilesGone
    /\ UNCHANGED <<op, allRet, cliVars, repVars, ctxDone, clientVars, pureVars, gfpVars, pos,
                   fetchIssued, fetchRets, aesRet, remote>>

-----------------------------------------------------------------------------
(* The CSV reports (internal/reporter/csv.go).  A cell of a row is the     *)
(* string the writer is handed; quoting and line ends are encoding/csv's.  *)

\* the characters of the sort keys drawn, in their byte order
Alphabet == <<"B", "a", "b">>

Ord(c) == CHOOSE i \in 1..Len(Alphabet) : Alphabet[i] = c

\* Go's a < b on strings: byte by byte, a proper prefix first
RECURSIVE StrLess(_, _)
StrLess(a, b) ==
    IF b = <<>> THEN FALSE
    ELSE IF a = <<>> THEN TRUE
    ELSE IF Head(a) # Head(b) THEN Ord(Head(a)) < Ord(Head(b))
    ELSE StrLess(Tail(a), Tail(b))

\* less comparing the file names only
less_FileNameOnly(a, b) == StrLess(a.FileName, b.FileName)

\* the less function both writers hand to sort.Slice
less(a, b) ==
    IF a.OwnerEmail # b.OwnerEmail
    THEN StrLess(a.OwnerEmail, b.OwnerEmail)
    ELSE StrLess(a.FileName, b.FileName)

\* sort.Slice on a slice of at most 12 elements is an insertion sort: each
\* element moves left past the elements it is less than
RECURSIVE Insert(_, _)
Insert(data, x) ==
    IF data = <<>> \/ ~less(x, data[Len(data)]) THEN Append(data, x)
    ELSE Append(Insert(SubSeq(data, 1, Len(data) - 1), x), data[Len(data)])

RECURSIVE SortSlice(_)
SortSlice(data) ==
    IF data = <<>> THEN <<>>
    ELSE Insert(SortSlice(SubSeq(data, 1, Len(data) - 1)), data[Len(data)])

\* t.Format("2006-01-02T15:04:05Z"): the wall clock t shows in its own
\* location; the layout's "Z" is no zone verb and is written as it stands
Format(t) ==
    Pad(t.Year, 4) \o <<"-">> \o Pad(t.Month, 2) \o <<"-">> \o Pad(t.Day, 2)
    \o <<"T">> \o Pad(t.Hour, 2) \o <<":">> \o Pad(t.Minute, 2) \o <<":">>
    \o Pad(t.Second, 2) \o <<"Z">>

\* the cell of a timestamp: empty for the zero time
TimeCell(t) == IF ~IsZero(t) THEN Format(t) ELSE <<>>

\* strconv.FormatInt(n, 10), n >= 0
RECURSIVE FormatInt(_)
FormatInt(n) ==
    IF n < 10 THEN <<Digits[n + 1]>>
    ELSE Append(FormatInt(n \div 10), Digits[(n % 10) + 1])

FilesHeader ==
    <<"owner_email", "file_id", "file_name", "file_type", "created_time",
      "modified_time", "size_bytes">>

FilesRow(rec) ==
    <<rec.OwnerEmail, rec.FileID, rec.FileName, rec.FileType,
      TimeCell(rec.CreatedTime), TimeCell(rec.ModifiedTime),
      FormatInt(rec.SizeBytes)>>

SharingHeader ==
    <<"owner_email", "file_id", "file_name", "shared_with_email",
      "shared_with_domain", "permission_type", "permission_role",
      "shared_date">>

SharingRow(rec) ==
    <<rec.OwnerEmail, rec.FileID, rec.FileName, rec.SharedWithEmail,
      rec.SharedWithDomain, rec.PermissionType, rec.PermissionRole,
      TimeCell(rec.SharedDate)>>

\* the rows of a report: the header, then the row of each record
RowsOf(header, recordRows) == <<header>> \o recordRows

\* the loops `for _, rec := range records { ... writer.Write(row) }`
FilesRows(recs) == [i \in 1..Len(recs) |-> FilesRow(recs[i])]

SharingRows(recs) == [i \in 1..Len(recs) |-> SharingRow(recs[i])]

\* the error of a file that could not be created
CreateErr == [kind |-> "create"]

\* the writer's body after the sort: os.Create fails, or the header and the
\* rows are written
WriteRows(header, recordRows) ==
    \E created \in BOOLEAN :
        /\ rows' = IF created THEN RowsOf(header, recordRows) ELSE <<>>
        /\ repRet' = <<IF created THEN NoErr
                       ELSE Wrap(<<"failed to create file">>, CreateErr)>>
        /\ runs' = Append(runs, [rows |-> rows', err |-> repRet'[1]])

\* most records a report is given
MaxRecords == 3

\* the files a listing of the report runs may return: owners and names
\* that differ by case or by a prefix, two files that tie under the sort
\* key, a file without owner, and every kind of timestamp
ReportFiles ==
    LET file(id, owner, name, created, modified, size) ==
            [ID |-> id, Name |-> name, MimeType |-> <<"a">>,
             OwnerEmail |-> owner, CreatedTime |-> created,
             ModifiedTime |-> modified, Size |-> size]
    IN  { file(<<"1">>, <<"b">>, <<"a">>,
               Stamp(2024, 1, 15, 10, 30, 0, ZoneZ),
               Stamp(2024, 1, 20, 15, 45, 0, ZoneWest), 1024),
          file(<<"2">>, <<"B">>, <<"a">>,
               Stamp(2024, 2, 29, 23, 59, 59, ZoneEast),
               Stamp(2024, 1, 1, 2, 0, 0, ZoneEast), 7),
          file(<<"3">>, <<"b">>, <<"a">>, <<>>, <<"b", "a", "d">>, 0),
          file(<<"4">>, <<"b">>, <<"B">>,
               Stamp(2024, 13, 1, 0, 0, 0, ZoneZ),
               Stamp(2023, 2, 30, 0, 0, 0, ZoneZ), 10),
          file(<<"5">>, <<"b", "a">>, <<>>,
               Stamp(2024, 1, 15, 10, 30, 0, <<>>),
               [Stamp(2024, 1, 15, 10, 30, 0, ZoneZ) EXCEPT ![11] = " "], 99),
          file(<<"6">>, <<>>, <<"a", "b">>,
               Stamp(1, 1, 1, 0, 0, 0, ZoneZ),
               Stamp(2024, 1, 15, 10, 30, 0, ZoneZ), 100) }

\* the share records WriteExternalSharing may be given
ReportShares ==
    LET share(id, owner, name, date) ==
            [OwnerEmail |-> owner, FileID |-> id, FileName |-> name,
             SharedWithEmail |-> <<"a", "@", "b">>,
             SharedWithDomain |-> <<"b">>, PermissionType |-> <<"u">>,
             PermissionRole |-> <<"r">>, SharedDate |-> date]
    IN  { share(<<"1">>, <<"b">>, <<"a">>, ZeroTime),
          share(<<"2">>, <<"B">>, <<"b">>, ZeroTime),
          share(<<"3">>, <<"b">>, <<"a">>,
                Time(2024, 5, 15, 14, 30, 45, 0)),
          share(<<"4">>, <<"b">>, <<"B">>, ZeroTime),
          share(<<"5">>, <<>>, <<"a">>, ZeroTime) }

\* runAuditFiles (the command `audit files`): AuditFiles returns the
\* records of the listing; the listing itself is ListAllFiles' business
RunAuditFiles ==
    /\ op = "runAuditFiles"
    /\ pc = "start"
    /\ records' = FileRecordsOf(listing)
    /\ given' = records'
    /\ pc' = "report"
    /\ UNCHANGED <<op, allRet, cliVars, afRet, ctxDone, clientVars, pureVars, lafVars, gfpVars,
                   aesVars, listing, rows, repRet, runs, remote>>

\* the arrangements of data in which no element is less than an earlier one
SortedArrangements(data) ==
    LET n == Len(data)
        onto == {q \in [1..n -> 1..n] : \A i \in 1..n : \E j \in 1..n : q[j] = i}
        all == {[i \in 1..n |-> data[q[i]]] : q \in onto}
    IN  {a \in all : \A i \in 1..n : \A j \in i..n : ~less(a[j], a[i])}

\* WriteFilesByOwner leaving records that tie under less in any order
WriteFilesByOwner_AnyTieOrder ==
    /\ op = "runAuditFiles"
    /\ pc = "report"
    /\ records' \in SortedArrangements(records)
    /\ WriteRows(FilesHeader, FilesRows(records'))
    /\ pc' = "done"
    /\ UNCHANGED <<op, allRet, cliVars, afRet, ctxDone, clientVars, pureVars, lafVars, gfpVars,
                   aesVars, listing, given, remote>>

\* CSVReporter.WriteFilesByOwner(result.FileRecords)
WriteFilesByOwner ==
    /\ op = "runAuditFiles"
    /\ pc = "report"
    /\ records' = SortSlice(records)
    /\ WriteRows(FilesHeader, FilesRows(records'))
    /\ pc' = "done"
    /\ UNCHANGED <<op, allRet, cliVars, afRet, ctxDone, clientVars, pureVars, lafVars, gfpVars,
                   aesVars, listing, given, remote>>

\* the command is run once more, against the same remote
RunAuditFilesAgain ==
    /\ op = "runAuditFiles"
    /\ pc = "done"
    /\ Len(runs) < 2
    /\ records' = <<>>
    /\ given' = <<>>
    /\ rows' = <<>>
    /\ repRet' = <<>>
    /\ pc' = "start"
    /\ UNCHANGED <<op, allRet, cliVars, afRet, ctxDone, clientVars, pureVars, lafVars, gfpVars,
                   aesVars, listing, runs, remote>>

\* CSVReporter.WriteExternalSharing(records)
WriteExternalSharing ==
    /\ op = "WriteExternalSharing"
    /\ pc = "report"
    /\ records' = SortSlice(records)
    /\ WriteRows(SharingHeader, SharingRows(records'))
    /\ pc' = "done"
    /\ UNCHANGED <<op, allRet, cliVars, afRet, ctxDone, clientVars, pureVars, lafVars, gfpVars,
                   aesVars, listing, given, remote>>

InitReport ==
    /\ op \in {"runAuditFiles", "WriteExternalSharing"}
    /\ ctxDone = FALSE
    /\ domain \in {<<"d">>}
    /\ pageSize \in {100}
    /\ includeSharedDrives = FALSE
    /\ IdlePure
    /\ IdleListing
    /\ IdleAudit
    /\ IdleCli
    /\ IF op = "runAuditFiles"
       THEN /\ pc = "start"
            /\ listing \in StringsUpTo(ReportFiles, MaxRecords)
            /\ records = <<>>
       ELSE /\ pc = "report"
            /\ listing = <<>>
            /\ records \in StringsUpTo(ReportShares, MaxRecords)
    /\ given = records
    /\ rows = <<>>
    /\ repRet = <<>>
    /\ runs = <<>>

NextReport ==
    \/ RunAuditFiles
    \/ WriteFilesByOwner
    \/ RunAuditFilesAgain
    \/ WriteExternalSharing

SpecReport == InitReport /\ [][NextReport]_vars

-----------------------------------------------------------------------------
(* Config.Validate (internal/config/validate.go) and the command line      *)
(* (cmd/gwork): config.Load, audit.NewAuditor, the audit, the report, and  *)
(* main's exit.                                                            *)

\* exit codes (package exitcode)
Success == 0
ConfigError == 1
AuthError == 2
APIError == 3
InternalError == 10

\* ValidOutputFormats lists the supported output formats.
ValidOutputFormats == <<"csv", "json">>

\* what os.Stat answers for the paths drawn: nil for a file that is there,
\* ENOENT for a missing file in a directory, ENOTDIR for a path through a
\* regular file, EACCES for a file in a directory that may not be searched
Stat(path) ==
    CASE path = "key.json" -> "nil"
      [] path = "missing.json" -> "ENOENT"
      [] path = "file/key.json" -> "ENOTDIR"
      [] path = "locked/key.json" -> "EACCES"

\* os.IsNotExist
IsNotExist(err) == err = "ENOENT"

\* strings.Contains(email, "@")
ContainsAt(email) == \E i \in 1..Len(email) : email[i] = "@"

isValidFormat(format) ==
    \E i \in 1..Len(ValidOutputFormats) : ValidOutputFormats[i] = format

\* the errors Validate collects, in order, each its message's parts
ValidateErrs(c) ==
    (IF c.ServiceAccountFile = ""
     THEN << <<"google.service_account_file is required">> >>
     ELSE IF IsNotExist(Stat(c.ServiceAccountFile))
     THEN << <<"service account file not found: ", c.ServiceAccountFile>> >>
     ELSE <<>>)
    \o
    (IF c.AdminEmail = <<>>
     THEN << <<"google.admin_email is required for domain-wide delegation">> >>
     ELSE IF ~ContainsAt(c.AdminEmail)
     THEN << <<"google.admin_email must be a valid email address">> >>
     ELSE <<>>)
    \o
    (IF c.Domain = <<>> THEN << <<"google.domain is required">> >> ELSE <<>>)
    \o
    (IF c.PageSize < 1 \/ c.PageSize > 1000
     THEN << <<"audit.page_size must be between 1 and 1000">> >>
     ELSE <<>>)
    \o
    (IF ~isValidFormat(c.Format)
     THEN << <<"output.format must be one of: ", "csv, json">> >>
     ELSE <<>>)

\* Validate returning at the first error it finds
Validate_FirstOnly(c) ==
    IF ValidateErrs(c) = <<>> THEN NoErr
    ELSE [kind |-> "join", errs |-> <<ValidateErrs(c)[1]>>]

\* Validate checks if the configuration is valid: nil, or errors.Join of
\* the errors collected
Validate(c) ==
    IF Len(ValidateErrs(c)) > 0
    THEN [kind |-> "join", errs |-> ValidateErrs(c)]
    ELSE NoErr

\* the configurations drawn
ConfigFiles == {"", "key.json", "missing.json", "file/key.json", "locked/key.json"}
AdminEmails == {<<>>, <<"a">>, <<"a", "@", "d">>}
ConfigDomains == {<<>>, <<"d">>}
PageSizes == {0, 1, DefaultPageSize, DefaultPageSize + 1}
Formats == {"csv", "json", "CSV", "xml", ""}

Configs ==
    [ServiceAccountFile : ConfigFiles, AdminEmail : AdminEmails,
     Domain : ConfigDomains, PageSize : PageSizes, Format : Formats]

\* a stage of the command has failed with err: the command returns it
\* wrapped, else goes on to the stage next
Stage(msg, err, next) ==
    IF err # NoErr
    THEN /\ cmdErr' = <<Wrap(<<msg>>, err)>>
         /\ pc' = "exit"
    ELSE /\ pc' = next
         /\ UNCHANGED cmdErr

\* the audit commands: `audit files`, `audit sharing`, `audit all`
Commands == {"files", "sharing", "all"}

\* the report files a command writes, in order
ReportsOf(cmd) ==
    CASE cmd = "files" -> <<"files_by_owner.csv">>
      [] cmd = "sharing" -> <<"external_sharing.csv">>
      [] cmd = "all" -> <<"files_by_owner.csv", "external_sharing.csv">>

\* what is left unchanged by every step of the command line
CliFrame ==
    UNCHANGED <<op, allRet, ctxDone, clientVars, pureVars, lafVars, gfpVars,
                aesVars, afRet, repVars, cfg, command, remote>>

\* LoadConfig going on to the next stage with a configuration that failed
\* validation
LoadConfig_InvalidAccepted ==
    /\ op = "main"
    /\ pc = "start"
    /\ \E read \in BOOLEAN :
          IF read
          THEN /\ valRet' = <<Validate(cfg)>>
               /\ Stage("failed to load config", NoErr, "auth")
          ELSE /\ Stage("failed to load config",
                        Wrap(<<"failed to read config file">>, [kind |-> "read"]),
                        "auth")
               /\ UNCHANGED valRet
    /\ UNCHANGED <<exitCode, did>>
    /\ CliFrame

\* loadConfig: config.Load reads the file (which may fail) and validates
LoadConfig ==
    /\ op = "main"
    /\ pc = "start"
    /\ \E read \in BOOLEAN :
          IF read
          THEN /\ valRet' = <<Validate(cfg)>>
               /\ Stage("failed to load config",
                        IF valRet'[1] # NoErr
                        THEN Wrap(<<"invalid configuration">>, valRet'[1])
                        ELSE NoErr,
                        "auth")
          ELSE /\ Stage("failed to load config",
                        Wrap(<<"failed to read config file">>, [kind |-> "read"]),
                        "auth")
               /\ UNCHANGED valRet
    /\ UNCHANGED <<exitCode, did>>
    /\ CliFrame

\* audit.NewAuditor: the authenticator and the drive service
NewAuditor ==
    /\ op = "main"
    /\ pc = "auth"
    /\ did' = Append(did, [event |-> "auth"])
    /\ \E err \in {NoErr, Wrap(<<"failed to create authenticator">>,
                                [kind |-> "credentials"])} :
          Stage("failed to create auditor", err, "audit")
    /\ UNCHANGED <<valRet, exitCode>>
    /\ CliFrame

\* auditor.AuditFiles, AuditExternalSharing or AuditAll: ListAllFiles is
\* called; the audit succeeds, or the listing has failed
RunAudit ==
    /\ op = "main"
    /\ pc = "audit"
    /\ did' = Append(did, [event |-> "list"])
    /\ \E err \in {NoErr} \cup
                  {Wrap(<<"failed to list files">>,
                        Wrap(<<"failed to list files">>, TransportErr(e))) :
                      e \in RemoteErrors} :
          Stage("audit failed", err, "report")
    /\ UNCHANGED <<valRet, exitCode>>
    /\ CliFrame

\* reporter.NewCSVReporter and the writers of the command's reports, up to
\* the first that fails; the command returns
RunReport ==
    /\ op = "main"
    /\ pc = "report"
    /\ \E k \in 0..Len(ReportsOf(command)) :
          /\ did' = did \o [i \in 1..k |-> [event |-> "write",
                                            report |-> ReportsOf(command)[i],
                                            format |-> "csv"]]
          /\ cmdErr' = <<IF k < Len(ReportsOf(command))
                         THEN Wrap(<<IF command # "all"
                                     THEN "failed to write report"
                                     ELSE IF k = 0
                                     THEN "failed to write files report"
                                     ELSE "failed to write sharing report">>,
                                   Wrap(<<"failed to create file">>, CreateErr))
                         ELSE NoErr>>
    /\ pc' = "exit"
    /\ UNCHANGED <<valRet, exitCode>>
    /\ CliFrame

\* main: os.Exit(exitcode.InternalError) if Execute returned an error
MainExit ==
    /\ op = "main"
    /\ pc = "exit"
    /\ exitCode' = <<IF cmdErr[1] # NoErr THEN InternalError ELSE Success>>
    /\ pc' = "done"
    /\ UNCHANGED <<valRet, cmdErr, did>>
    /\ CliFrame

InitCli ==
    /\ op = "main"
    /\ pc = "start"
    /\ ctxDone = FALSE
    /\ domain \in {<<"d">>}
    /\ pageSize \in {100}
    /\ includeSharedDrives = FALSE
    /\ IdlePure
    /\ IdleListing
    /\ IdleAudit
    /\ IdleReport
    /\ cfg \in Configs
    /\ command \in Commands
    /\ valRet = <<>>
    /\ cmdErr = <<>>
    /\ exitCode = <<>>
    /\ did = <<>>

NextCli ==
    \/ LoadConfig
    \/ NewAuditor
    \/ RunAudit
    \/ RunReport
    \/ MainExit

SpecCli == InitCli /\ [][NextCli]_vars

-----------------------------------------------------------------------------
(* ExtractDomain, called on every bounded e-mail string.                   *)

InitExtract ==
    /\ op = "ExtractDomain"
    /\ pc = "start"
    /\ ctxDone = FALSE
    /\ domain \in {<<"d">>}
    /\ pageSize \in {100}
    /\ includeSharedDrives = FALSE
    /\ argPerm = NoPerm
    /\ retExternal = <<>>
    /\ argEmail \in Emails
    /\ retDomain = <<>>
    /\ IdleListing
    /\ IdleAudit
    /\ IdleReport
    /\ IdleCli

ExtractDomainCall ==
    /\ op = "ExtractDomain"
    /\ pc = "start"
    /\ retDomain' = <<ExtractDomain(argEmail)>>
    /\ pc' = "done"
    /\ UNCHANGED <<op, allRet, cliVars, afRet, repVars, ctxDone, clientVars, argPerm, retExternal, argEmail,
                   lafVars, gfpVars, aesVars, remote>>

NextExtract == ExtractDomainCall

SpecExtract == InitExtract /\ [][NextExtract]_vars

-----------------------------------------------------------------------------
(* IsExternalShare, called on every bounded permission by a client of      *)
(* every bounded organization domain.                                      *)

InitClassify ==
    /\ op = "IsExternalShare"
    /\ pc = "start"
    /\ ctxDone = FALSE
    /\ domain \in OrgDomains
    /\ pageSize \in {100}
    /\ includeSharedDrives = FALSE
    /\ \E t \in PermTypes, e \in Emails, d \in Domains :
          argPerm = Permission("p", t, "reader", e, d, "")
    /\ retExternal = <<>>
    /\ argEmail = <<>>
    /\ retDomain = <<>>
    /\ IdleListing
    /\ IdleAudit
    /\ IdleReport
    /\ IdleCli

IsExternalShareCall ==
    /\ op = "IsExternalShare"
    /\ pc = "start"
    /\ retExternal' = <<IsExternalShare(domain, argPerm)>>
    /\ pc' = "done"
    /\ UNCHANGED <<op, allRet, cliVars, afRet, repVars, ctxDone, clientVars, argPerm, argEmail, retDomain,
                   lafVars, gfpVars, aesVars, remote>>

NextClassify == IsExternalShareCall

SpecClassify == InitClassify /\ [][NextClassify]_vars

-----------------------------------------------------------------------------
(* permissionToRecord on any permission, and the row the sharing report    *)
(* writes for its record.                                                  *)

InitRecord ==
    /\ op = "permissionToRecord"
    /\ pc = "start"
    /\ ctxDone = FALSE
    /\ domain \in {<<"d">>}
    /\ pageSize \in {100}
    /\ includeSharedDrives = FALSE
    /\ \E t \in PermTypes, e \in Emails, d \in Domains :
          argPerm = Permission("p", t, "reader", e, d, "")
    /\ retExternal = <<>>
    /\ argEmail = <<>>
    /\ retDomain = <<>>
    /\ IdleListing
    /\ files \in {<<FileInfo(f)>> : f \in RemoteFiles}
    /\ pos = 0
    /\ result = ZeroResult
    /\ fetchIssued = <<>>
    /\ fetchRets = <<>>
    /\ aesRet = NoRet
    /\ afRet = NoRet
    /\ allRet = NoAllRet
    /\ remote = FreshRemote
    /\ IdleReport
    /\ IdleCli

\* permissionToRecord(file, perm) is called and returns its record
PermissionToRecordCall ==
    /\ op = "permissionToRecord"
    /\ pc = "start"
    /\ records' = <<permissionToRecord(files[1], argPerm)>>
    /\ pc' = "report"
    /\ UNCHANGED <<op, allRet, cliVars, afRet, ctxDone, clientVars, pureVars, lafVars,
                   gfpVars, aesVars, listing, given, rows, repRet, runs,
                   remote>>

\* rep.WriteExternalSharing(result.ExternalShares) on the record
WriteShare ==
    /\ op = "permissionToRecord"
    /\ pc = "report"
    /\ records' = SortSlice(records)
    /\ WriteRows(SharingHeader, SharingRows(records'))
    /\ pc' = "done"
    /\ UNCHANGED <<op, allRet, cliVars, afRet, ctxDone, clientVars, pureVars, lafVars,
                   gfpVars, aesVars, listing, given, remote>>

NextRecord == PermissionToRecordCall \/ WriteShare

SpecRecord == InitRecord /\ [][NextRecord]_vars

-----------------------------------------------------------------------------
(* The listings and the sharing audit, against a remote that answers each  *)
(* call as it likes and a context that may be cancelled at any moment.     *)

Init ==
    /\ op \in {"ListAllFiles", "GetFilePermissions", "AuditExternalSharing",
              "AuditFiles"}
    /\ pc = "start"
    /\ ctxDone = FALSE
    /\ domain \in {<<"d">>}
    /\ pageSize \in {100}
    /\ includeSharedDrives \in
          (IF op = "AuditExternalSharing" THEN {TRUE} ELSE BOOLEAN)
    /\ IdlePure
    /\ IdleListing
    /\ IdleAudit
    /\ IdleReport
    /\ IdleCli

Next ==
    \/ Cancel
    \/ ListAllFilesStart
    \/ ListAllFilesCheck
    \/ ListAllFilesPage
    \/ GetFilePermissionsStart
    \/ GetFilePermissionsCheck
    \/ GetFilePermissionsPage
    \/ AuditExternalSharingStart
    \/ AuditExternalSharingListed
    \/ AuditExternalSharingLoop
    \/ AuditExternalSharingFetched
    \/ AuditFilesStart
    \/ AuditFilesListed

Spec == Init /\ [][Next]_vars

-----------------------------------------------------------------------------
(* The two audits alone, each step of which is taken once it can be: the   *)
(* goroutine is scheduled and the remote answers every call.  The remote   *)
(* returns the empty token after at most MaxTokens others.  No fairness is *)
(* assumed of the owner of the context.  What the permissions are plays    *)
(* no part in termination: here the remote returns at most one of them     *)
(* over the run, on any page of any file.                                  *)

InitAudits ==
    /\ op \in {"AuditExternalSharing", "AuditFiles"}
    /\ pc = "start"
    /\ ctxDone = FALSE
    /\ domain \in {<<"d">>}
    /\ pageSize \in {100}
    /\ includeSharedDrives = TRUE
    /\ IdlePure
    /\ IdleListing
    /\ files = <<>>
    /\ pos = 0
    /\ result = ZeroResult
    /\ fetchIssued = <<>>
    /\ fetchRets = <<>>
    /\ aesRet = NoRet
    /\ afRet = NoRet
    /\ allRet = NoAllRet
    /\ remote = [FreshRemote EXCEPT !.perms = MaxPerms - 1]
    /\ IdleReport
    /\ IdleCli

\* the steps of the audits and of the listings they call
AuditSteps ==
    \/ ListAllFilesCheck
    \/ ListAllFilesPage
    \/ GetFilePermissionsCheck
    \/ GetFilePermissionsPage
    \/ AuditExternalSharingStart
    \/ AuditExternalSharingListed
    \/ AuditExternalSharingLoop
    \/ AuditExternalSharingFetched
    \/ AuditFilesStart
    \/ AuditFilesListed

NextAudits == Cancel \/ AuditSteps

SpecAudits == InitAudits /\ [][NextAudits]_vars /\ WF_vars(AuditSteps)

-----------------------------------------------------------------------------
(* Auditor.AuditAll (internal/audit): the files audit, then the sharing    *)
(* audit, each with a listing of its own.  op is the function running.     *)

\* the frame of the variables AuditAll's own steps leave alone
AuditAllFrame ==
    UNCHANGED <<ctxDone, clientVars, pureVars, lafVars, gfpVars, aesVars,
                afRet, repVars, cliVars, remote>>

\* AuditAll(ctx) calls a.AuditFiles(ctx)
AuditAllStart ==
    /\ op = "AuditAll"
    /\ pc = "start"
    /\ op' = "AuditFiles"
    /\ UNCHANGED <<pc, allRet>>
    /\ AuditAllFrame

\* AuditFiles has returned to AuditAll: the error check, then the call of
\* a.AuditExternalSharing(ctx)
AuditAllFilesReturned ==
    /\ op = "AuditFiles"
    /\ pc = "done"
    /\ IF afRet.err # NoErr
       THEN /\ allRet' = [files |-> <<>>, sharing |-> <<>>,
                          err |-> Wrap(<<"files audit failed">>, afRet.err)]
            /\ op' = "AuditAll"
            /\ UNCHANGED pc
       ELSE /\ op' = "AuditExternalSharing"
            /\ pc' = "start"
            /\ UNCHANGED allRet
    /\ AuditAllFrame

\* AuditExternalSharing has returned to AuditAll: the error check and the
\* return of both results
AuditAllSharingReturned ==
    /\ op = "AuditExternalSharing"
    /\ pc = "done"
    /\ allRet' = IF aesRet.err # NoErr
                 THEN [files |-> afRet.val, sharing |-> <<>>,
                       err |-> Wrap(<<"sharing audit failed">>, aesRet.err)]
                 ELSE [files |-> afRet.val, sharing |-> aesRet.val,
                       err |-> NoErr]
    /\ op' = "AuditAll"
    /\ UNCHANGED pc
    /\ AuditAllFrame

InitAll ==
    /\ op = "AuditAll"
    /\ pc = "start"
    /\ ctxDone = FALSE
    /\ domain \in {<<"d">>}
    /\ pageSize \in {100}
    /\ includeSharedDrives = TRUE
    /\ IdlePure
    /\ IdleListing
    /\ IdleAudit
    /\ IdleReport
    /\ IdleCli

NextAll ==
    \/ Cancel
    \/ AuditAllStart
    \/ AuditAllFilesReturned
    \/ AuditAllSharingReturned
    \/ AuditSteps

SpecAll == InitAll /\ [][NextAll]_vars

-----------------------------------------------------------------------------
(* The classifier's properties.                                            *)

\* s holds the character c
Contains(s, c) == \E i \in 1..Len(s) : s[i] = c

\* s with its upper-case letters made lower-case
Lower(s) == [i \in 1..Len(s) |-> IF s[i] = "D" THEN "d" ELSE s[i]]

\* email is <anything>@<dom> with no "@" in dom
EndsWithAtDomain(email, dom) ==
    /\ ~Contains(dom, "@")
    /\ Len(email) > Len(dom)
    /\ email[Len(email) - Len(dom)] = "@"
    /\ \A i \in 1..Len(dom) : email[Len(email) - Len(dom) + i] = dom[i]

\* C8: ExtractDomain returns the empty string for an e-mail without "@", and
\* otherwise exactly the characters after its last "@": the e-mail is some
\* prefix, "@", and the result, which holds no "@".
C8_ExtractDomain ==
    (op = "ExtractDomain" /\ pc = "done") =>
        LET r == retDomain[1]
        IN  IF ~Contains(argEmail, "@")
            THEN r = <<>>
            ELSE /\ ~Contains(r, "@")
                 /\ EndsWithAtDomain(argEmail, r)
                 /\ (argEmail[Len(argEmail)] = "@" => r = <<>>)

\* C8 witness: an e-mail with two "@" of which the last one counts
C8_Witness ==
    /\ pc = "done"
    /\ argEmail = <<"@", "d", "@", "d">>
    /\ retDomain = << <<"d">> >>

\* C4: a permission of type "anyone" is external, whatever its e-mail and
\* domain and whatever the organization domain.
C4_AnyoneExternal ==
    (op = "IsExternalShare" /\ pc = "done" /\ argPerm.Type = "anyone") =>
        retExternal = <<TRUE>>

\* C4 witness: an "anyone" permission carrying the organization's own domain
C4_Witness ==
    /\ pc = "done"
    /\ argPerm.Type = "anyone"
    /\ argPerm.Domain = domain
    /\ EndsWithAtDomain(argPerm.EmailAddress, domain)
    /\ retExternal = <<TRUE>>

\* C5: a permission of type "domain" is external exactly when its domain
\* differs from the organization domain; an empty permission domain is
\* external; the e-mail has no say.
C5_DomainRule ==
    (op = "IsExternalShare" /\ pc = "done" /\ argPerm.Type = "domain") =>
        /\ retExternal = <<argPerm.Domain # domain>>
        /\ (argPerm.Domain = <<>> => retExternal = <<TRUE>>)

\* C5 witness: no permission domain, an e-mail of the organization: external
C5_Witness ==
    /\ pc = "done"
    /\ argPerm.Type = "domain"
    /\ argPerm.Domain = <<>>
    /\ EndsWithAtDomain(argPerm.EmailAddress, domain)
    /\ retExternal = <<TRUE>>

\* C6: a "user" or "group" permission without e-mail is internal; with an
\* e-mail it is internal exactly when the e-mail ends in "@" and the
\* organization domain, compared whole and case-sensitively: a subdomain,
\* another letter case and an e-mail without "@" are external.
C6_UserGroupRule ==
    (op = "IsExternalShare" /\ pc = "done" /\ argPerm.Type \in {"user", "group"}) =>
        LET email == argPerm.EmailAddress
            r == retExternal[1]
        IN  IF email = <<>>
            THEN r = FALSE
            ELSE /\ r = ~EndsWithAtDomain(email, domain)
                 /\ (~Contains(email, "@") => r)
                 /\ (EndsWithAtDomain(email, <<"d", ".">> \o domain) => r)
                 /\ (\E k \in 1..Len(email) :
                        /\ email[k] = "@"
                        /\ SubSeq(email, k + 1, Len(email)) # domain
                        /\ Lower(SubSeq(email, k + 1, Len(email))) = Lower(domain))
                    => r

\* C6 witness: a user of a subdomain of the organization domain
C6_Witness ==
    /\ pc = "done"
    /\ argPerm.Type = "user"
    /\ domain = <<"d">>
    /\ argPerm.EmailAddress = <<"@", "d", ".", "d">>
    /\ retExternal = <<TRUE>>

\* C7: a permission whose type is none of "anyone", "domain", "user" and
\* "group" is internal, whatever its e-mail and domain.
C7_UnknownInternal ==
    (/\ op = "IsExternalShare"
     /\ pc = "done"
     /\ argPerm.Type \notin {"anyone", "domain", "user", "group"}) =>
        retExternal = <<FALSE>>

\* C7 witness: the type "User" with an e-mail and a domain of another domain
C7_Witness ==
    /\ pc = "done"
    /\ argPerm.Type = "User"
    /\ argPerm.Domain # domain
    /\ Contains(argPerm.EmailAddress, "@")
    /\ ~EndsWithAtDomain(argPerm.EmailAddress, domain)
    /\ retExternal = <<FALSE>>

-----------------------------------------------------------------------------
(* The listings' properties.                                               *)

\* the entries of the pages of a response history, in the order received
RECURSIVE PageItems(_)
PageItems(pages) ==
    IF pages = <<>> THEN <<>>
    ELSE (IF pages[1].kind = "page" THEN pages[1].items ELSE <<>>)
         \o PageItems(Tail(pages))

\* the first n answers are pages with a non-empty next page token
AllContinue(pages, n) ==
    \A j \in 1..n : pages[j].kind = "page" /\ pages[j].token # ""

\* a listing with the calls `calls` answered by `pages` returned (val, nil):
\* the n-th answer is the first with an empty token, n calls were made, and
\* val is `items`, the converted entries of the pages
ReturnedAll(calls, pages, ret, items) ==
    LET n == Len(pages)
    IN  /\ n >= 1
        /\ Len(calls) = n
        /\ AllContinue(pages, n - 1)
        /\ pages[n].kind = "page"
        /\ pages[n].token = ""
        /\ ret.val = items

\* a listing still in its loop has only seen pages with a non-empty token,
\* and has made no call beyond the one in flight
StillPaging(calls, pages, inCall) ==
    /\ Len(calls) = Len(pages) + (IF inCall THEN 1 ELSE 0)
    /\ AllContinue(pages, Len(pages))

\* C1: when ListAllFiles or GetFilePermissions returns without error, the
\* n-th page was the first with an empty token, the result is the entries of
\* pages 1..n in the order received, and exactly n calls were made; while a
\* listing is in its loop no page with an empty token has been received.
C1_Pagination ==
    /\ (pc = "laf_ret" /\ lafRet.err = NoErr) =>
          ReturnedAll(fileCalls, filePages, lafRet, FileInfos(PageItems(filePages)))
    /\ (pc = "gfp_ret" /\ gfpRet.err = NoErr) =>
          ReturnedAll(permCalls, permPages, gfpRet, Permissions(PageItems(permPages)))
    /\ (pc \in {"laf_check", "laf_call"}) =>
          StillPaging(fileCalls, filePages, pc = "laf_call")
    /\ (pc \in {"gfp_check", "gfp_call"}) =>
          StillPaging(permCalls, permPages, pc = "gfp_call")

\* C1 witness: two pages of one file each, returned in the order received
C1_Witness ==
    /\ pc = "laf_ret"
    /\ lafRet.err = NoErr
    /\ Len(filePages) = 2
    /\ Len(lafRet.val) = 2
    /\ lafRet.val[1].ID = "f1"
    /\ lafRet.val[2].ID = "f2"
    /\ Len(filePages[1].items) = 1

\* a listing returned the cancellation error: every call made was answered by
\* a page with a non-empty token, and val is `items`, the entries of those pages
ReturnedCancelled(calls, pages, ret, items) ==
    /\ Len(calls) = Len(pages)
    /\ AllContinue(pages, Len(pages))
    /\ ret.val = items

C2_State ==
    /\ (pc = "laf_ret" /\ lafRet.err = CtxErr) =>
          ReturnedCancelled(fileCalls, filePages, lafRet,
                            FileInfos(PageItems(filePages)))
    /\ (pc = "gfp_ret" /\ gfpRet.err = CtxErr) =>
          ReturnedCancelled(permCalls, permPages, gfpRet,
                            Permissions(PageItems(permPages)))

C2_Step ==
    /\ Len(fileCalls') > Len(fileCalls) => ~ctxDone
    /\ Len(permCalls') > Len(permCalls) => ~ctxDone
    /\ (pc = "laf_check" /\ ctxDone) =>
          /\ pc' = "laf_ret"
          /\ lafRet'.err = CtxErr
          /\ fileCalls' = fileCalls
    /\ (pc = "gfp_check" /\ ctxDone) =>
          /\ pc' = "gfp_ret"
          /\ gfpRet'.err = CtxErr
          /\ permCalls' = permCalls

\* C2: a listing call is only sent from a check that found the context not
\* cancelled; a check that finds it cancelled sends no call and returns the
\* cancellation error; and what is returned with the cancellation error is
\* the entries of all pages received so far.
C2_CancelBetweenPages == [](C2_State) /\ [][C2_Step]_vars

\* C2 witness: ListAllFiles cancelled before its second page, returning the
\* file of the first
C2_Witness ==
    /\ pc = "laf_ret"
    /\ lafRet.err = CtxErr
    /\ Len(filePages) = 1
    /\ Len(lafRet.val) = 1

\* a listing whose last answer is a failure returned (nil, err), err wrapping
\* the failure's cause under msg, and made no call after it
ReturnedFailure(calls, pages, ret, msg) ==
    LET n == Len(pages)
    IN  /\ Len(calls) = n
        /\ AllContinue(pages, n - 1)
        /\ ret.val = <<>>
        /\ ret.err = [kind |-> "wrap", msg |-> msg, cause |-> pages[n].cause]

Failed(pages) == pages # <<>> /\ pages[Len(pages)].kind = "error"

\* C3: when a listing call fails, on whatever page, ListAllFiles and
\* GetFilePermissions return no items and an error that names the operation
\* (and the file ID, for permissions) and wraps the cause; the failed call
\* is the last one.
C3_TransportFailure ==
    /\ Failed(filePages) =>
          /\ pc = "laf_ret"
          /\ ReturnedFailure(fileCalls, filePages, lafRet, <<"failed to list files">>)
    /\ Failed(permPages) =>
          /\ pc = "gfp_ret"
          /\ ReturnedFailure(permCalls, permPages, gfpRet,
                             <<"failed to list permissions for file", permFileID>>)
    /\ (pc = "laf_ret" /\ lafRet.err \notin {NoErr, CtxErr}) => Failed(filePages)
    /\ (pc = "gfp_ret" /\ gfpRet.err \notin {NoErr, CtxErr}) => Failed(permPages)

\* C3 witness: GetFilePermissions fails on its second page, after a first
\* page with a permission, and returns nothing
C3_Witness ==
    /\ pc = "gfp_ret"
    /\ Len(permPages) = 2
    /\ Len(permPages[1].items) = 1
    /\ permPages[2].kind = "error"
    /\ gfpRet.val = <<>>
    /\ gfpRet.err.kind = "wrap"

-----------------------------------------------------------------------------
(* The sharing audit's properties.                                         *)

\* <<1, ..., n>>
UpTo(n) == [i \in 1..n |-> i]

\* the error entries the fetches `rets` of the files fs give: one per failed
\* fetch, in order, with the file's ID and the fetch's error
RECURSIVE ErrorsOf(_, _)
ErrorsOf(fs, rets) ==
    IF rets = <<>> THEN <<>>
    ELSE LET k == Len(rets)
             rest == ErrorsOf(fs, SubSeq(rets, 1, k - 1))
         IN  IF rets[k].err = NoErr THEN rest
             ELSE Append(rest, [kind |-> "wrap", msg |-> <<"file", fs[k].ID>>,
                                cause |-> rets[k].err])

\* the share records of one file's permissions: one per permission the
\* classifier takes for external, in the permissions' order
SharesOfFile(file, perms) ==
    LET ext == SelectSeq(perms, LAMBDA p : IsExternalShare(domain, p))
    IN  [i \in 1..Len(ext) |-> permissionToRecord(file, ext[i])]

\* the share records the fetches `rets` of the files fs give: those of the
\* fetches that succeeded, in order
RECURSIVE SharesOf(_, _)
SharesOf(fs, rets) ==
    IF rets = <<>> THEN <<>>
    ELSE LET k == Len(rets)
             rest == SharesOf(fs, SubSeq(rets, 1, k - 1))
         IN  IF rets[k].err = NoErr THEN rest \o SharesOfFile(fs[k], rets[k].val)
             ELSE rest

\* AuditExternalSharing has built its result (the listing succeeded)
InAudit ==
    /\ op = "AuditExternalSharing"
    /\ pc \in {"aes_loop", "gfp_check", "gfp_call", "gfp_ret", "done"}
    /\ pc = "done" => aesRet.val # <<>>

\* a failed fetch adds one error entry, counts for nothing in FilesProcessed
\* and gives no share record
C9_FailureRecorded ==
    /\ result.Errors = ErrorsOf(files, fetchRets)
    /\ result.FilesProcessed =
          Cardinality({k \in 1..Len(fetchRets) : fetchRets[k].err = NoErr})
    /\ result.ExternalShares = SharesOf(files, fetchRets)
    /\ fetchIssued = UpTo(Len(fetchIssued))

\* C9 as stated: once a file's permission fetch has failed, a permission
\* fetch is issued for every later file of the listing.
C9_AsStated ==
    InAudit =>
        /\ C9_FailureRecorded
        /\ pc = "done" =>
              \A k \in 1..Len(fetchRets) :
                 fetchRets[k].err # NoErr =>
                    \A j \in (k + 1)..Len(files) :
                       \E i \in 1..Len(fetchIssued) : fetchIssued[i] = j

\* C9, amended: a failed permission fetch does not end the audit: the audit
\* returns only after a fetch was issued for every file of the listing, or
\* with the cancellation error; the failed fetch adds one error entry with
\* the file's ID and the cause, and counts for nothing else.
C9_FailureContinues ==
    InAudit =>
        /\ C9_FailureRecorded
        /\ pc = "done" =>
              \/ aesRet.err = NoErr /\ fetchIssued = UpTo(Len(files))
              \/ aesRet.err = CtxErr

\* C9 witness: the fetch of the first file failed, the second file was
\* fetched and gave a share record
C9_Witness ==
    /\ op = "AuditExternalSharing"
    /\ pc = "done"
    /\ aesRet.err = NoErr
    /\ Len(fetchRets) = 2
    /\ fetchRets[1].err # NoErr
    /\ fetchRets[2].err = NoErr
    /\ Len(result.Errors) = 1
    /\ result.FilesProcessed = 1
    /\ Len(result.ExternalShares) = 1
    /\ result.ExternalShares[1].FileID = files[2].ID

C10_State ==
    (op = "AuditExternalSharing" /\ pc = "done" /\ aesRet.err = CtxErr) =>
        /\ aesRet.val # <<>>
        /\ aesRet.val[1].ExternalShares = SharesOf(files, fetchRets)
        /\ pos <= Len(files)
        /\ Len(fetchRets) = pos - 1
        /\ fetchIssued = UpTo(pos - 1)

C10_Step ==
    /\ Len(fetchIssued') > Len(fetchIssued) => ~ctxDone
    /\ (pc = "aes_loop" /\ pos <= Len(files) /\ ctxDone) =>
          /\ pc' = "done"
          /\ aesRet'.err = CtxErr
          /\ fetchIssued' = fetchIssued

\* C10: a permission fetch is only issued from a check that found the
\* context not cancelled; a check before file k that finds it cancelled
\* issues no fetch and returns the cancellation error with a non-nil result
\* that holds the share records of the files before k.
C10_CancelBetweenFiles == [](C10_State) /\ [][C10_Step]_vars

\* C10 witness: cancelled before the second file, the share record of the
\* first is returned
C10_Witness ==
    /\ op = "AuditExternalSharing"
    /\ pc = "done"
    /\ aesRet.err = CtxErr
    /\ pos = 2
    /\ Len(aesRet.val[1].ExternalShares) = 1

-----------------------------------------------------------------------------
(* The share records of a completed sharing audit.                         *)

\* the (file, permission) pairs of the run that give a share record: file k
\* of the listing, whose fetch succeeded, and permission j of that fetch,
\* which the classifier takes for external
ExternalPairs ==
    {q \in (1..Len(fetchRets)) \X (1..MaxPerms + 1) :
        /\ fetchRets[q[1]].err = NoErr
        /\ q[2] <= Len(fetchRets[q[1]].val)
        /\ IsExternalShare(domain, fetchRets[q[1]].val[q[2]])}

\* the place of pair q among the pairs: file-listing order, then permission
\* order
PairRank(q) ==
    Cardinality({r \in ExternalPairs :
                    r[1] < q[1] \/ (r[1] = q[1] /\ r[2] <= q[2])})

\* C11: on normal completion ExternalShares holds exactly one record per
\* (file, permission) pair whose fetch succeeded and whose permission is
\* classified external, none for an internal permission, in file-listing
\* order and then permission order; the record's owner e-mail, file ID and
\* file name are the file's, its shared-with e-mail, type and role are the
\* permission's.
C11_SharesExact ==
    (op = "AuditExternalSharing" /\ pc = "done" /\ aesRet.err = NoErr) =>
        LET shares == aesRet.val[1].ExternalShares
        IN  /\ Len(fetchRets) = Len(files)
            /\ Len(shares) = Cardinality(ExternalPairs)
            /\ aesRet.val[1].TotalExternalShares = Len(shares)
            /\ \A q \in ExternalPairs :
                  LET rec == shares[PairRank(q)]
                      file == files[q[1]]
                      perm == fetchRets[q[1]].val[q[2]]
                  IN  /\ rec.OwnerEmail = file.OwnerEmail
                      /\ rec.FileID = file.ID
                      /\ rec.FileName = file.Name
                      /\ rec.SharedWithEmail = perm.EmailAddress
                      /\ rec.PermissionType = perm.Type
                      /\ rec.PermissionRole = perm.Role

\* C11 witness: a completed audit of two files; the first file's only
\* permission is internal, the second's is external: one record, of the
\* second file
C11_Witness ==
    /\ op = "AuditExternalSharing"
    /\ pc = "done"
    /\ aesRet.err = NoErr
    /\ Len(files) = 2
    /\ Len(fetchRets) = 2
    /\ fetchRets[1].err = NoErr
    /\ fetchRets[2].err = NoErr
    /\ Len(fetchRets[1].val) = 1
    /\ ~IsExternalShare(domain, fetchRets[1].val[1])
    /\ Len(fetchRets[2].val) = 1
    /\ IsExternalShare(domain, fetchRets[2].val[1])
    /\ Len(aesRet.val[1].ExternalShares) = 1
    /\ aesRet.val[1].ExternalShares[1].FileID = files[2].ID

\* the IDs of the files the run's listing returned
ListedIDs == {files[k].ID : k \in 1..Len(files)}

\* C12: in every result of AuditExternalSharing, complete or partial (and
\* in the result under construction), the file ID of every
\* ExternalShareRecord is the ID of a file that the listing of the same run
\* returned.
C12_SharesOfListedFiles ==
    /\ InAudit =>
          \A i \in 1..Len(result.ExternalShares) :
             result.ExternalShares[i].FileID \in ListedIDs
    /\ (op = "AuditExternalSharing" /\ pc = "done" /\ aesRet.val # <<>>) =>
          \A i \in 1..Len(aesRet.val[1].ExternalShares) :
             aesRet.val[1].ExternalShares[i].FileID \in ListedIDs

\* C12 witness: a partial result: two files listed, the audit cancelled
\* after the first, whose share record is returned with the first file's ID
C12_Witness ==
    /\ op = "AuditExternalSharing"
    /\ pc = "done"
    /\ aesRet.err = CtxErr
    /\ aesRet.val # <<>>
    /\ Len(files) = 2
    /\ Len(aesRet.val[1].ExternalShares) >= 1
    /\ aesRet.val[1].ExternalShares[1].FileID = files[1].ID
    /\ files[1].ID # files[2].ID

-----------------------------------------------------------------------------
(* The files-by-owner audit and the failure of the top-level listing.      *)

\* an audit entry point has ListAllFiles' return in hand
AuditListed == op \in {"AuditFiles", "AuditExternalSharing"} /\ pc = "laf_ret"

C13_State ==
    /\ (op = "AuditFiles" /\ pc = "done" /\ afRet.err # NoErr) =>
          /\ afRet.val = <<>>
          /\ afRet.err.kind = "wrap"
          /\ result = ZeroResult
    /\ (op = "AuditExternalSharing" /\ pc = "done" /\ aesRet.val = <<>>) =>
          /\ aesRet.err.kind = "wrap"
          /\ result = ZeroResult
          /\ fetchIssued = <<>>
          /\ fetchRets = <<>>
          /\ permCalls = <<>>
          /\ remote.perms = 0

\* the step the audit takes with a failed listing in hand
C13_Step ==
    (AuditListed /\ lafRet.err # NoErr /\ pc' # pc) =>
        LET ret == IF op = "AuditFiles" THEN afRet' ELSE aesRet'
        IN  /\ pc' = "done"
            /\ ret.val = <<>>
            /\ ret.err.kind = "wrap"
            /\ ret.err.cause = lafRet.err
            /\ result' = ZeroResult
            /\ fetchIssued' = <<>>
            /\ permCalls' = <<>>

\* C13: when the top-level listing fails (a transport error on any page, or
\* cancellation during the listing), AuditFiles and AuditExternalSharing
\* return nil and an error that wraps the listing's error;
\* AuditExternalSharing has then issued no permission fetch and built no
\* share record.
C13_ListingFailure == [](C13_State) /\ [][C13_Step]_vars

\* C13 witness: AuditFiles returned nil and the wrapped error of a listing
\* whose second page failed in the transport
C13_Witness ==
    /\ op = "AuditFiles"
    /\ pc = "done"
    /\ afRet.val = <<>>
    /\ afRet.err.kind = "wrap"
    /\ afRet.err.cause.kind = "wrap"
    /\ afRet.err.cause.cause \in {TransportErr(e) : e \in RemoteErrors}
    /\ remote.files >= 1
    /\ remote.tokens >= 1

\* the zone of offset minutes as RFC 3339 writes it numerically
ZoneText(offset) ==
    LET m == IF offset < 0 THEN 0 - offset ELSE offset
    IN  <<IF offset < 0 THEN "-" ELSE "+">> \o Pad(m \div 60, 2) \o <<":">>
        \o Pad(m % 60, 2)

\* the timestamp string value writes the wall clock and the zone of t
Denotes(value, t) ==
    \E zone \in {ZoneText(t.Offset)} \cup (IF t.Offset = 0 THEN {ZoneZ} ELSE {}) :
        value = Stamp(t.Year, t.Month, t.Day, t.Hour, t.Minute, t.Second, zone)

\* t is what a record holds for the remote's timestamp string value
TimeRead(value, t) ==
    IF value \in InvalidStamps THEN t = ZeroTime ELSE Denotes(value, t)

\* the step AuditFiles takes with a successful listing in hand
C14_Step ==
    (op = "AuditFiles" /\ pc = "laf_ret" /\ lafRet.err = NoErr /\ pc' # pc) =>
        /\ pc' = "done"
        /\ afRet'.err = NoErr
        /\ afRet'.val # <<>>
        /\ LET res == afRet'.val[1]
               listed == lafRet.val
           IN  /\ Len(res.FileRecords) = Len(listed)
               /\ res.TotalFiles = Len(res.FileRecords)
               /\ res.FilesProcessed = Len(res.FileRecords)
               /\ \A i \in 1..Len(listed) :
                     LET rec == res.FileRecords[i]
                         f == listed[i]
                     IN  /\ rec.FileID = f.ID
                         /\ rec.FileName = f.Name
                         /\ rec.FileType = f.MimeType
                         /\ rec.OwnerEmail = f.OwnerEmail
                         /\ rec.SizeBytes = f.Size
                         /\ TimeRead(f.CreatedTime, rec.CreatedTime)
                         /\ TimeRead(f.ModifiedTime, rec.ModifiedTime)

\* C14: when the listing succeeds AuditFiles returns, without error, exactly
\* one FileRecord per listed file in listing order, with TotalFiles and
\* FilesProcessed both the number of records; each record copies the file's
\* ID, name, MIME type, owner e-mail and size; a created or modified
\* timestamp that is empty or not RFC 3339 gives the zero time in the
\* record, any other the time it writes.
C14_OneRecordPerFile == [][C14_Step]_vars

\* C14 witness: two files listed; the second has an empty created and an
\* unparsable modified timestamp and still has its record, with zero times
C14_Witness ==
    /\ op = "AuditFiles"
    /\ pc = "done"
    /\ afRet.err = NoErr
    /\ Len(files) = 2
    /\ \E i \in 1..2 :
          /\ files[i].CreatedTime = <<>>
          /\ files[i].ModifiedTime \in InvalidStamps \ {<<>>}
          /\ afRet.val[1].FileRecords[i].FileID = files[i].ID
          /\ afRet.val[1].FileRecords[i].CreatedTime = ZeroTime
          /\ afRet.val[1].FileRecords[i].ModifiedTime = ZeroTime
    /\ \E i \in 1..2 : afRet.val[1].FileRecords[i].ModifiedTime.Offset < 0

-----------------------------------------------------------------------------
(* The reports' properties.                                                *)

\* a writer has returned without error
Written == pc = "done" /\ repRet = <<NoErr>>

\* a is b or before b in the byte order, said by the first place where the
\* two differ
OrdinalLeq(a, b) ==
    \/ Len(a) <= Len(b) /\ \A i \in 1..Len(a) : a[i] = b[i]
    \/ \E k \in 1..Len(a) :
          /\ k <= Len(b)
          /\ \A i \in 1..(k - 1) : a[i] = b[i]
          /\ Ord(a[k]) < Ord(b[k])

\* row r1 may stand before row r2: by owner_email, then by file_name
KeyLeq(r1, r2) ==
    IF r1[1] # r2[1] THEN OrdinalLeq(r1[1], r2[1]) ELSE OrdinalLeq(r1[3], r2[3])

\* the one-to-one mappings of 1..n onto itself
Bijections(n) ==
    {q \in [1..n -> 1..n] : \A i \in 1..n : \E j \in 1..n : q[j] = i}

\* C15: the rows WriteFilesByOwner and WriteExternalSharing write are the
\* header (also for an empty input) and then one row per input record, a
\* permutation of the input, ascending by owner e-mail and then file name
\* in case-sensitive ordinal string order.
C15_SortedPermutation ==
    Written =>
        LET n == Len(given)
        IN  /\ Len(rows) = n + 1
            /\ rows[1] = IF op = "runAuditFiles" THEN FilesHeader
                         ELSE SharingHeader
            /\ \E q \in Bijections(n) :
                  \A i \in 1..n :
                     /\ rows[i + 1][1] = given[q[i]].OwnerEmail
                     /\ rows[i + 1][2] = given[q[i]].FileID
                     /\ rows[i + 1][3] = given[q[i]].FileName
            /\ \A i \in 2..(n + 1) : \A j \in i..(n + 1) :
                  KeyLeq(rows[i], rows[j])

\* C15 witness: three records given with the owner "b" before the owner "B"
\* and the name "a" before the name "B"; the report has them the other way
C15_Witness ==
    /\ Written
    /\ Len(given) = 3
    /\ given[1].OwnerEmail = <<"b">>
    /\ given[1].FileName = <<"a">>
    /\ given[2].OwnerEmail = <<"b">>
    /\ given[2].FileName = <<"B">>
    /\ given[3].OwnerEmail = <<"B">>
    /\ rows[2][1] = <<"B">>
    /\ rows[3][3] = <<"B">>
    /\ rows[4][3] = <<"a">>

\* cell is what C16 asks for the time t: empty for the zero time, else a
\* string YYYY-MM-DDTHH:MM:SSZ that is RFC 3339 and names the instant of t
UtcCell(cell, t) ==
    IF IsZero(t) THEN cell = <<>>
    ELSE /\ Len(cell) = Len(Format(ZeroTime))
         /\ cell[Len(cell)] = "Z"
         /\ ~Parse(cell).err
         /\ Instant(Parse(cell).t) = Instant(t)

\* C16 as stated: in the files-by-owner report every non-zero timestamp is
\* written as YYYY-MM-DDTHH:MM:SSZ denoting the same instant in UTC,
\* whatever the zone of the remote's timestamp string; the zero time is
\* written as the empty string.
C16_AsStated ==
    (Written /\ op = "runAuditFiles") =>
        \A i \in 1..Len(records) :
           /\ UtcCell(rows[i + 1][5], records[i].CreatedTime)
           /\ UtcCell(rows[i + 1][6], records[i].ModifiedTime)

\* what holds of the cells instead: the time's own wall clock, then "Z"
C16_WallClock ==
    (Written /\ op = "runAuditFiles") =>
        \A i \in 1..Len(records) :
           LET t == records[i].CreatedTime
               cell == rows[i + 1][5]
           IN  IF IsZero(t) THEN cell = <<>>
               ELSE cell = Stamp(t.Year, t.Month, t.Day, t.Hour, t.Minute,
                                 t.Second, ZoneZ)

\* the shared date of every record of shares is the zero time, and its
\* shared_date cell is empty
Undated(shares) ==
    \A i \in 1..Len(shares) :
       /\ shares[i].SharedDate = ZeroTime
       /\ IsZero(shares[i].SharedDate)
       /\ SharingRow(shares[i])[Len(SharingHeader)] = <<>>

\* C17: every ExternalShareRecord AuditExternalSharing produces, in the
\* result under construction and in the result returned, has the zero time
\* as SharedDate, so that its shared_date cell in the external-sharing
\* report is the empty string.
C17_SharedDateZero ==
    /\ InAudit => Undated(result.ExternalShares)
    /\ (op = "AuditExternalSharing" /\ pc = "done" /\ aesRet.val # <<>>) =>
          Undated(aesRet.val[1].ExternalShares)

\* C17 witness: a completed audit returned two share records
C17_Witness ==
    /\ op = "AuditExternalSharing"
    /\ pc = "done"
    /\ aesRet.err = NoErr
    /\ Len(aesRet.val[1].ExternalShares) = 2
    /\ SharingRow(aesRet.val[1].ExternalShares[2])[Len(SharingHeader)] = <<>>

-----------------------------------------------------------------------------
(* The command line's properties.                                          *)

\* the exit code C18 gives the outcome of the command
OutcomeCode ==
    IF cmdErr[1] = NoErr THEN Success
    ELSE CASE cmdErr[1].msg = <<"failed to load config">> -> ConfigError
           [] cmdErr[1].msg = <<"failed to create auditor">> -> AuthError
           [] cmdErr[1].msg = <<"audit failed">> -> APIError
           [] OTHER -> InternalError

\* C18 as stated: the exit status names the class of the outcome: 0 on
\* success, 1 when loading or validating the configuration fails, 2 when
\* authentication fails, 3 when a listing call of the Google API fails, 10
\* for an internal error.
C18_AsStated ==
    (op = "main" /\ pc = "done") => exitCode = <<OutcomeCode>>

\* what holds instead: 0 on success, 10 whatever has failed
C18_SuccessOrInternal ==
    (op = "main" /\ pc = "done") =>
        exitCode = <<IF cmdErr[1] = NoErr THEN Success ELSE InternalError>>

\* the rules of Validate that configuration c violates, the file rule
\* being violated by an empty path or a path that `absent` holds
Violated(c, absent) ==
    {r \in {"service_account_file", "admin_email", "domain", "page_size",
            "format"} :
        \/ r = "service_account_file"
              /\ (c.ServiceAccountFile = "" \/ c.ServiceAccountFile \in absent)
        \/ r = "admin_email"
              /\ (c.AdminEmail = <<>> \/ "@" \notin {c.AdminEmail[i] : i \in 1..Len(c.AdminEmail)})
        \/ r = "domain" /\ c.Domain = <<>>
        \/ r = "page_size" /\ c.PageSize \notin 1..1000
        \/ r = "format" /\ c.Format \notin {"csv", "json"}}

\* the rule an error of Validate reports
RuleOf(err) ==
    CASE err[1] \in {"google.service_account_file is required",
                     "service account file not found: "} -> "service_account_file"
      [] err[1] \in {"google.admin_email is required for domain-wide delegation",
                     "google.admin_email must be a valid email address"} -> "admin_email"
      [] err[1] = "google.domain is required" -> "domain"
      [] err[1] = "audit.page_size must be between 1 and 1000" -> "page_size"
      [] err[1] = "output.format must be one of: " -> "format"

\* Validate has returned: nil exactly when no rule is violated, else an
\* error that reports each violated rule once and nothing else; for the
\* default configuration, the three required-field errors
Reported(absent) ==
    valRet # <<>> =>
        LET ret == valRet[1]
            rules == Violated(cfg, absent)
        IN  /\ ret = NoErr <=> rules = {}
            /\ ret # NoErr =>
                  /\ {RuleOf(ret.errs[i]) : i \in 1..Len(ret.errs)} = rules
                  /\ Len(ret.errs) = Cardinality(rules)
            /\ cfg = NewDefault =>
                  /\ ret # NoErr
                  /\ \A m \in {"google.service_account_file is required",
                               "google.admin_email is required for domain-wide delegation",
                               "google.domain is required"} :
                        \E i \in 1..Len(ret.errs) : ret.errs[i] = <<m>>

\* the paths drawn that name no file
AbsentFiles == {"missing.json", "file/key.json"}

\* C20 as stated: Validate returns an error if and only if a rule is
\* violated, the file rule by an empty service_account_file or one naming a
\* nonexistent file, and the error reports every violated rule.
C20_AsStated == Reported(AbsentFiles)

\* C20, amended: the same, the file rule being violated by an empty
\* service_account_file or one for which os.Stat answers that it does not
\* exist (ENOENT); admin_email empty or without "@", domain empty,
\* page_size outside 1..1000 and a format other than "csv" and "json" are
\* the other rules; the error reports every violated rule, and the default
\* configuration fails with the three required-field errors.
C20_EveryViolationReported ==
    Reported({f \in ConfigFiles \ {""} : Stat(f) = "ENOENT"})

\* C20 witness: Validate has returned for a configuration that violates
\* all five rules, with five errors
C20_Witness ==
    /\ op = "main"
    /\ valRet # <<>>
    /\ cfg.ServiceAccountFile = "missing.json"
    /\ cfg.AdminEmail = <<"a">>
    /\ cfg.Domain = <<>>
    /\ cfg.PageSize = 0
    /\ cfg.Format = "CSV"
    /\ valRet[1] # NoErr
    /\ Len(valRet[1].errs) = 5

-----------------------------------------------------------------------------
(* The audit commands: configuration first, and the report format.         *)

\* the configuration violates a rule of validation
Invalid == Violated(cfg, {f \in ConfigFiles \ {""} : Stat(f) = "ENOENT"}) # {}

\* the command has returned the error of loading the configuration
LoadFailed ==
    /\ cmdErr # <<>>
    /\ cmdErr[1] # NoErr
    /\ cmdErr[1].msg = <<"failed to load config">>

\* the configuration file was not read
Unread ==
    /\ LoadFailed
    /\ cmdErr[1].cause.msg = <<"failed to read config file">>

\* C21: in each of `audit files`, `audit sharing` and `audit all`, a
\* configuration that is missing (not read, or the defaults for want of a
\* file) or that violates validation makes the command fail with the
\* configuration error before authentication is attempted and before any
\* listing call is issued, and no report is written.
C21_ConfigFirst ==
    op = "main" =>
        /\ pc = "start" => did = <<>>
        /\ (Invalid \/ Unread) =>
              /\ did = <<>>
              /\ pc \in {"start", "exit", "done"}
              /\ pc # "start" => LoadFailed
              /\ pc = "done" => exitCode # <<Success>>
        /\ LoadFailed => did = <<>>

\* C21 witness: `audit all` has exited on the default configuration (no
\* file), having done nothing
C21_Witness ==
    /\ op = "main"
    /\ command = "all"
    /\ pc = "done"
    /\ cfg = NewDefault
    /\ valRet # <<>>
    /\ valRet[1] # NoErr
    /\ LoadFailed
    /\ did = <<>>

\* the reports written so far
ReportsWritten == {did[i] : i \in {j \in 1..Len(did) : did[j].event = "write"}}

\* C22 as stated: the configured output.format selects the format of the
\* reports: every report a command writes is in the configured format, JSON
\* for "json" and CSV for "csv".
C22_AsStated ==
    op = "main" => \A r \in ReportsWritten : r.format = cfg.Format

-----------------------------------------------------------------------------
(* The record of a permission and its row.                                 *)

\* the sharing report was written for the record of the permission
RowWritten ==
    /\ op = "permissionToRecord"
    /\ pc = "done"
    /\ repRet = <<NoErr>>

\* C23 as stated: the row of a public ("anyone") permission has "anyone" for
\* shared_with_email and "*" for shared_with_domain.
C23_AsStated ==
    (RowWritten /\ argPerm.Type = "anyone") =>
        /\ rows[2][4] = <<"a", "n", "y", "o", "n", "e">>
        /\ rows[2][5] = <<"*">>

\* C25: the record's SharedWithEmail is the permission's email address; its
\* SharedWithDomain is the permission's domain if that is not empty, else
\* ExtractDomain of the email address if that is not empty, else empty: an
\* "anyone" permission without email and domain has both fields empty, in
\* the record and in its row.
C25_DomainThenEmail ==
    (op = "permissionToRecord" /\ pc # "start") =>
        LET rec == records[1]
            email == argPerm.EmailAddress
            dom == argPerm.Domain
        IN  /\ Len(records) = 1
            /\ rec.SharedWithEmail = email
            /\ dom # <<>> => rec.SharedWithDomain = dom
            /\ (dom = <<>> /\ email # <<>>) =>
                  rec.SharedWithDomain = ExtractDomain(email)
            /\ (dom = <<>> /\ email = <<>>) => rec.SharedWithDomain = <<>>
            /\ RowWritten =>
                  /\ rows[2][4] = rec.SharedWithEmail
                  /\ rows[2][5] = rec.SharedWithDomain

\* C25 witness: the row of an "anyone" permission without email and domain
\* was written, with both cells empty
C25_Witness ==
    /\ RowWritten
    /\ argPerm.Type = "anyone"
    /\ argPerm.EmailAddress = <<>>
    /\ argPerm.Domain = <<>>
    /\ records[1].SharedWithEmail = <<>>
    /\ records[1].SharedWithDomain = <<>>
    /\ rows[2][4] = <<>>
    /\ rows[2][5] = <<>>

-----------------------------------------------------------------------------
(* The requests of one aggregation.                                        *)

\* the calls of an aggregation, with the pages answered so far: the first
\* call has the empty token, each later one the token of the page before it
TokensChained(tokens, pages) ==
    /\ Len(pages) \in {Len(tokens) - 1, Len(tokens)} \cap Nat
    /\ \A k \in 1..Len(tokens) :
          IF k = 1 THEN tokens[k] = ""
          ELSE /\ pages[k - 1].kind = "page"
               /\ pages[k - 1].token # ""
               /\ tokens[k] = pages[k - 1].token

\* C24: in ListAllFiles and in GetFilePermissions the first listing call
\* has the empty page token and each later call the token the call before
\* it returned; scope, page size, shared-drive flags, field set and file ID
\* are the same in every call of one aggregation.
C24_TokensChained ==
    /\ TokensChained([k \in 1..Len(fileCalls) |-> fileCalls[k].PageToken],
                     filePages)
    /\ \A k \in 1..Len(fileCalls) :
          /\ fileCalls[k].Corpora = "domain"
          /\ fileCalls[k].PageSize = pageSize
          /\ fileCalls[k].SupportsAllDrives = includeSharedDrives
          /\ fileCalls[k].IncludeItemsFromAllDrives = includeSharedDrives
          /\ fileCalls[k].Fields = fileCalls[1].Fields
    /\ TokensChained([k \in 1..Len(permCalls) |-> permCalls[k].opts.PageToken],
                     permPages)
    /\ \A k \in 1..Len(permCalls) :
          /\ permCalls[k].fileID = permFileID
          /\ permCalls[k].opts.SupportsAllDrives = includeSharedDrives
          /\ permCalls[k].opts.Fields = permCalls[1].opts.Fields

\* C24 witness: the third call of the file listing of an audit, with the
\* second token
C24_Witness ==
    /\ op = "AuditFiles"
    /\ pc = "laf_call"
    /\ Len(fileCalls) = 3
    /\ Len(filePages) = 2
    /\ fileCalls[2].PageToken = "t1"
    /\ fileCalls[3].PageToken = "t2"

-----------------------------------------------------------------------------
(* The counters and the error list of the sharing audit.                   *)

\* the files of the listing whose fetch has returned, with or without error
Fetched(ok) ==
    {k \in 1..Len(fetchRets) : (fetchRets[k].err = NoErr) = ok}

\* C26: at every point of AuditExternalSharing FilesProcessed + len(Errors)
\* is at most TotalFiles, the number of files listed; each file whose fetch
\* has returned is counted once, as processed or with an error entry; on
\* normal completion FilesProcessed + len(Errors) = TotalFiles.
C26_EachFileOnce ==
    InAudit =>
        /\ result.TotalFiles = Len(files)
        /\ result.FilesProcessed + Len(result.Errors) <= result.TotalFiles
        /\ result.FilesProcessed = Cardinality(Fetched(TRUE))
        /\ Len(result.Errors) = Cardinality(Fetched(FALSE))
        /\ Len(fetchRets) <= Len(files)
        /\ pc = "done" =>
              /\ aesRet.val[1].FilesProcessed = result.FilesProcessed
              /\ aesRet.val[1].Errors = result.Errors
              /\ aesRet.val[1].TotalFiles = Len(files)
              /\ aesRet.err = NoErr =>
                    /\ Len(fetchRets) = Len(files)
                    /\ result.FilesProcessed + Len(result.Errors)
                          = result.TotalFiles

\* C26 witness: the audit has completed on two files, the first processed,
\* the second failed
C26_Witness ==
    /\ op = "AuditExternalSharing"
    /\ pc = "done"
    /\ aesRet.err = NoErr
    /\ aesRet.val[1].TotalFiles = 2
    /\ aesRet.val[1].FilesProcessed = 1
    /\ Len(aesRet.val[1].Errors) = 1
    /\ fetchRets[1].err = NoErr
    /\ fetchRets[2].err # NoErr

\* C27 as stated: in every non-nil result AuditExternalSharing returns, the
\* partial result returned with the cancellation error included,
\* TotalExternalShares is the number of records in ExternalShares.
C27_AsStated ==
    (op = "AuditExternalSharing" /\ pc = "done" /\ aesRet.val # <<>>) =>
        aesRet.val[1].TotalExternalShares = Len(aesRet.val[1].ExternalShares)

\* C28 as stated: every entry of Errors stands for a file whose permission
\* listing failed at the remote API; a cancellation observed inside a
\* file's permission fetch adds no entry.
C28_AsStated ==
    InAudit =>
        \A i \in 1..Len(result.Errors) :
           /\ result.Errors[i].cause # CtxErr
           /\ result.Errors[i].cause.kind = "wrap"
           /\ result.Errors[i].cause.cause.kind = "transport"

-----------------------------------------------------------------------------
(* Termination of the audits.                                              *)

\* C29: against a remote whose listings return the empty page token after
\* finitely many pages, AuditFiles and AuditExternalSharing terminate,
\* whether or not the context is ever cancelled.
C29_Terminates ==
    (op \in {"AuditFiles", "AuditExternalSharing"}) ~> (pc = "done")

\* C29 witness: the sharing audit has returned without cancellation after a
\* file listing of two pages and a permission listing of two pages
C29_Witness ==
    /\ op = "AuditExternalSharing"
    /\ pc = "done"
    /\ ~ctxDone
    /\ aesRet.err = NoErr
    /\ remote.tokens = 2
    /\ Len(files) = 1
    /\ Len(fetchRets) = 1

-----------------------------------------------------------------------------
(* The two results of AuditAll.                                            *)

\* C30 as stated: when AuditAll succeeds, every record of the sharing
\* result has the file ID of a record of the files result, whatever the
\* remote answers to the two listings.
C30_AsStated ==
    (op = "AuditAll" /\ pc = "done" /\ allRet.err = NoErr) =>
        LET recs == allRet.files[1].FileRecords
            shares == allRet.sharing[1].ExternalShares
        IN  \A i \in 1..Len(shares) :
               \E j \in 1..Len(recs) : recs[j].FileID = shares[i].FileID

====
